---- MODULE Spec2Model ----
(***************************************************************************)
(* Model of the nPM13xx charger sensor driver                              *)
(* (drivers/sensor/nordic/npm13xx_charger/npm13xx_charger.c).              *)
(*                                                                         *)
(* Every driver entry point (init, sample_fetch, channel_get, attr_get,    *)
(* attr_set) is one action.  An action records the register transport      *)
(* calls the handler made, in order, in `calls`, its return value in `ret` *)
(* and its output sensor_value in `out`.                                   *)
(***************************************************************************)
EXTENDS Integers, Sequences, FiniteSets, TLC

VARIABLES
    config,   \* struct npm13xx_charger_config (immutable after construction)
    data,     \* struct npm13xx_charger_data (Live Sample State)
    phase,    \* "boot" | "ready" | "failed" | "fault"
    op,       \* the handler that ran last ("none" before any)
    args,     \* its arguments
    calls,    \* the transport calls it made, in order
    ret,      \* its return value
    out,      \* the sensor_value it produced
    inflight  \* the sample_fetch call in progress, when handlers interleave

vars == <<config, data, phase, op, args, calls, ret, out, inflight>>

----------------------------------------------------------------------------
(* errno values used by the driver and its collaborators *)
EIO == 5
EBUSY == 16
ENODEV == 19
EINVAL == 22
ERANGE == 34
ENOTSUP == 134

INT32_MAX == 2147483647
UINT8_MAX == 255

(* nPM13xx base addresses *)
CHGR_BASE == 3
ADC_BASE == 5
VBUS_BASE == 2

(* nPM13xx charger register offsets *)
CHGR_OFFSET_ERR_CLR == 0
CHGR_OFFSET_EN_SET == 4
CHGR_OFFSET_EN_CLR == 5
CHGR_OFFSET_DIS_SET == 6
CHGR_OFFSET_ISET == 8
CHGR_OFFSET_ISET_DISCHG == 10
CHGR_OFFSET_VTERM == 12
CHGR_OFFSET_VTERM_R == 13
CHGR_OFFSET_TRICKLE_SEL == 14
CHGR_OFFSET_ITERM_SEL == 15
CHGR_OFFSET_NTC_TEMPS == 16
CHGR_OFFSET_DIE_TEMPS == 24
CHGR_OFFSET_CHG_STAT == 52
CHGR_OFFSET_ERR_REASON == 54
CHGR_OFFSET_VBATLOW_EN == 80

(* nPM13xx ADC register offsets *)
ADC_OFFSET_TASK_VBAT == 0
ADC_OFFSET_TASK_TEMP == 1
ADC_OFFSET_NTCR_SEL == 10
ADC_OFFSET_TASK_AUTO == 12
ADC_OFFSET_RESULTS == 16
ADC_OFFSET_IBAT_EN == 36

(* nPM13xx VBUS register offsets *)
VBUS_OFFSET_ILIMUPDATE == 0
VBUS_OFFSET_ILIM == 1
VBUS_OFFSET_ILIMSTARTUP == 2
VBUS_OFFSET_DETECT == 5
VBUS_OFFSET_STATUS == 7

(* Dietemp calculation constants *)
DIETEMP_OFFSET_MDEGC == 394670
DIETEMP_FACTOR_MUL == 3963000
DIETEMP_FACTOR_DIV == 5000

----------------------------------------------------------------------------
(* Fixed-width C arithmetic *)

Pow2(n) == 2 ^ n

\* value of a C expression converted to uint8_t / uint16_t
U8(x) == x % 256
U16(x) == x % 65536

\* byte i (0 = least significant) of the two's complement form of an int32_t
Byte(x, i) == (x \div (256 ^ i)) % 256

\* a * b in int32_t arithmetic: the low 32 bits of the product, as a signed
\* value (what a two's complement build computes when the product overflows)
I32Mul(a, b) ==
    LET c0 == Byte(a, 0) * Byte(b, 0)
        c1 == Byte(a, 0) * Byte(b, 1) + Byte(a, 1) * Byte(b, 0)
        c2 == Byte(a, 0) * Byte(b, 2) + Byte(a, 1) * Byte(b, 1) + Byte(a, 2) * Byte(b, 0)
        c3 == Byte(a, 0) * Byte(b, 3) + Byte(a, 1) * Byte(b, 2)
                + Byte(a, 2) * Byte(b, 1) + Byte(a, 3) * Byte(b, 0)
        l == c0 + (c1 % 256) * 256
        lo == l % 65536
        hi == ((l \div 65536) + (c1 \div 256) + c2 + (c3 % 256) * 256) % 65536
    IN  IF hi >= 32768 THEN (hi - 65536) * 65536 + lo ELSE hi * 65536 + lo

\* C integer division: truncation toward zero (d # 0)
CDiv(n, d) ==
    IF (n >= 0) = (d > 0) THEN n \div d
    ELSE IF d > 0 THEN -((-n) \div d) ELSE -(n \div (-d))

\* x >> s and x & 3 on non-negative values
Shr(x, s) == x \div Pow2(s)
And3(x) == x % 4

\* DIV_ROUND_CLOSEST(n, d) of sys/util.h on signed operands
DIV_ROUND_CLOSEST(n, d) ==
    IF (n < 0) # (d < 0) THEN CDiv(n - CDiv(d, 2), d) ELSE CDiv(n + CDiv(d, 2), d)

----------------------------------------------------------------------------
(* sys/linear_range.h *)

LinearRange(min, step, min_idx, max_idx) ==
    [min |-> min, step |-> step, min_idx |-> min_idx, max_idx |-> max_idx]

linear_range_get_max_value(r) == r.min + r.step * (r.max_idx - r.min_idx)

\* returns [ret, idx]; idx is meaningful unless ret = -EINVAL from the first test
linear_range_get_win_index(r, val_min, val_max) ==
    LET r_max == linear_range_get_max_value(r)
        up == r.min_idx + ((val_min - r.min) + r.step - 1) \div r.step
    IN  IF val_max < r.min \/ val_min > r_max THEN [ret |-> -EINVAL, idx |-> 0]
        ELSE IF val_min < r.min THEN [ret |-> -ERANGE, idx |-> r.min_idx]
        ELSE IF val_max > r_max THEN [ret |-> -ERANGE, idx |-> r.max_idx]
        ELSE IF r.step = 0 THEN [ret |-> 0, idx |-> r.min_idx]
        ELSE IF r.min + r.step * (up - r.min_idx) > val_max
             THEN [ret |-> -EINVAL, idx |-> up]
             ELSE [ret |-> 0, idx |-> up]

RECURSIVE GroupWinIndexFrom(_, _, _, _)
GroupWinIndexFrom(rs, i, val_min, val_max) ==
    IF i > Len(rs) THEN [ret |-> -EINVAL, idx |-> 0]
    ELSE IF val_min > linear_range_get_max_value(rs[i])
         THEN GroupWinIndexFrom(rs, i + 1, val_min, val_max)
         ELSE linear_range_get_win_index(rs[i], val_min, val_max)

linear_range_group_get_win_index(rs, val_min, val_max) ==
    GroupWinIndexFrom(rs, 1, val_min, val_max)

----------------------------------------------------------------------------
(* Per-variant constant tables *)

NPM1300_CHARGER_VOLT_RANGES ==
    << LinearRange(3500000, 50000, 0, 3), LinearRange(4000000, 50000, 4, 13) >>
NPM1304_CHARGER_VOLT_RANGES ==
    << LinearRange(3600000, 50000, 0, 1), LinearRange(4000000, 50000, 2, 15) >>

NPM1300_CHARGER_CURRENT_RANGE == LinearRange(32000, 2000, 16, 400)
NPM1304_CHARGER_CURRENT_RANGE == LinearRange(4000, 500, 8, 200)

NPM1300_FULL_SCALE_DISCHARGE_FACTORS == << 112, 100 >>
NPM1304_FULL_SCALE_DISCHARGE_FACTORS == << 415, 400 >>
full_scale_charge_factors == << 125, 100 >>

\* allowed values for discharge limit, indexed from 0 in the source
npm1300_discharge_limits == << 84, 415 >>

vbus_current_range == LinearRange(100000, 100000, 1, 15)

----------------------------------------------------------------------------
(* Register transport of the MFD parent: an opaque synchronous call that   *)
(* returns 0 or a negative errno.  A plan fixes what the transport returns *)
(* during one handler invocation: 0 up to call number `at`, `err` at that  *)
(* call and `after` at every later call.                                   *)

MaxCalls == 22

TransportErrs == {-EIO, -EBUSY}

\* the transport fails from call `at` on (never when at = 0), first with `err`
\* and then with the other error
Plans ==
    {[at |-> 0, err |-> 0, after |-> 0]} \cup
    {[at |-> n, err |-> e, after |-> CHOOSE x \in TransportErrs : x # e] :
        n \in 1..MaxCalls, e \in TransportErrs}

\* return value of the k-th transport call of an invocation
RetOf(plan, k) ==
    IF plan.at = 0 \/ k < plan.at THEN 0
    ELSE IF k = plan.at THEN plan.err ELSE plan.after

\* int mfd_npm13xx_reg_write(dev, uint8_t base, uint8_t offset, uint8_t data)
mfd_npm13xx_reg_write(base, offset, d) ==
    [kind |-> "write", base |-> U8(base), off |-> U8(offset), data |-> << U8(d) >>]

\* int mfd_npm13xx_reg_write2(dev, base, offset, uint8_t data1, uint8_t data2)
mfd_npm13xx_reg_write2(base, offset, d1, d2) ==
    [kind |-> "write2", base |-> U8(base), off |-> U8(offset),
     data |-> << U8(d1), U8(d2) >>]

\* int mfd_npm13xx_reg_read(dev, base, offset, uint8_t *data)
mfd_npm13xx_reg_read(base, offset) ==
    [kind |-> "read", base |-> U8(base), off |-> U8(offset), data |-> << >>]

\* int mfd_npm13xx_reg_read_burst(dev, base, offset, void *data, size_t len)
mfd_npm13xx_reg_read_burst(base, offset) ==
    [kind |-> "burst", base |-> U8(base), off |-> U8(offset), data |-> << >>]

\* a completed call: the request, the bytes it delivered and its return value
Done(call, bytes, r) == [call EXCEPT !.data = IF call.kind \in {"read", "burst"}
                                              THEN bytes ELSE call.data]
                        @@ [ret |-> r]

----------------------------------------------------------------------------
(* Steps of a straight-line handler.  A step is a transport call followed  *)
(* (chk) or not by `if (ret != 0) return ret;`, a range lookup followed by *)
(* `if (ret == -EINVAL) return ret;`, or a trapping instruction.           *)

Call(c, chk) == [kind |-> "call", call |-> c, chk |-> chk]
Lookup(r) == [kind |-> "lookup", ret |-> r.ret]
Trap == [kind |-> "trap"]

RECURSIVE RunSteps(_, _, _, _)
RunSteps(steps, i, plan, done) ==
    IF i > Len(steps) THEN [calls |-> done, ret |-> 0, fault |-> FALSE]
    ELSE LET s == steps[i] IN
         IF s.kind = "lookup"
         THEN IF s.ret = -EINVAL
              THEN [calls |-> done, ret |-> s.ret, fault |-> FALSE]
              ELSE RunSteps(steps, i + 1, plan, done)
         ELSE IF s.kind = "trap"
         THEN [calls |-> done, ret |-> 0, fault |-> TRUE]
         ELSE LET r == RetOf(plan, Len(done) + 1)
                  now == Append(done, Done(s.call, << >>, r))
              IN  IF s.chk /\ r # 0
                  THEN [calls |-> now, ret |-> r, fault |-> FALSE]
                  ELSE RunSteps(steps, i + 1, plan, now)

----------------------------------------------------------------------------
(* Configuration (struct npm13xx_charger_config, NPM13XX_CHARGER_INIT) *)

\* thermistor-ohms values of the devicetree enum, by thermistor_idx (from 0)
ThermistorOhms == << 0, 10000, 47000, 100000 >>

\* dischg-limit-microamp values of the nPM1300 devicetree enum, by index (from 0)
Npm1300DischgLimits == << 200000, 1000000 >>

Unset2 == << INT32_MAX, INT32_MAX >>
Unset4 == << INT32_MAX, INT32_MAX, INT32_MAX, INT32_MAX >>

BaseConfig ==
    [mfd_ready |-> TRUE,
     term_microvolt |-> 4150000,
     term_warm_microvolt |-> 4000000,
     current_microamp |-> 150000,
     vbus_limit_microamp |-> 500000,
     temp_thresholds |-> Unset4,
     dietemp_thresholds |-> Unset2,
     thermistor_ohms |-> 10000,
     thermistor_beta |-> 3380,
     thermistor_idx |-> 1,
     trickle_sel |-> 1,
     iterm_sel |-> 1,
     charging_enable |-> TRUE,
     vbatlow_charge_enable |-> FALSE,
     disable_recharge |-> FALSE]

\* an nPM1300 instance with discharge limit index dl (0 or 1)
Npm1300Config(dl) ==
    BaseConfig @@
    [term_volt_ranges |-> NPM1300_CHARGER_VOLT_RANGES,
     current_range |-> NPM1300_CHARGER_CURRENT_RANGE,
     full_scale_discharge_factors |-> NPM1300_FULL_SCALE_DISCHARGE_FACTORS,
     dischg_limit_microamp |-> Npm1300DischgLimits[dl + 1],
     dischg_limit_idx |-> dl]

\* an nPM1304 instance: no discharge limit table, dischg_limit_idx = UINT8_MAX
Npm1304Config ==
    [current_microamp |-> 50000] @@ BaseConfig @@
    [term_volt_ranges |-> NPM1304_CHARGER_VOLT_RANGES,
     current_range |-> NPM1304_CHARGER_CURRENT_RANGE,
     full_scale_discharge_factors |-> NPM1304_FULL_SCALE_DISCHARGE_FACTORS,
     dischg_limit_microamp |-> 125000,
     dischg_limit_idx |-> UINT8_MAX]

VariantConfigs == {Npm1300Config(0), Npm1300Config(1), Npm1304Config}

\* sampled devicetree values
TermSamples == 2
CurrentSamples == 2
TermVolts == {3500000 + 25000 * k : k \in 0..TermSamples} \cup {4000000}
WarmVolts == {3600000, 3525000}
Currents ==
    {31000 + 1000 * k : k \in 0..CurrentSamples}
        \cup {3000, 35999, 100400, 800000, 801000, 802000}
VbusLimits == {500000, 150000}
NtcThresholds ==
    {Unset4,
     << 0, 10000, 45000, 60000 >>,
     << INT32_MAX, INT32_MAX, 45000, INT32_MAX >>,
     << 0, INT32_MAX, INT32_MAX, 60000 >>}
DieThresholds ==
    {Unset2, << 110000, 100000 >>, << INT32_MAX, 100000 >>}

ElectricalConfigs ==
    {[c EXCEPT !.term_microvolt = tv, !.term_warm_microvolt = tw,
               !.current_microamp = cur, !.vbus_limit_microamp = vb] :
        c \in VariantConfigs, tv \in TermVolts, tw \in WarmVolts,
        cur \in Currents, vb \in VbusLimits}

ThermalConfigs ==
    {[c EXCEPT !.thermistor_idx = th, !.thermistor_ohms = ThermistorOhms[th + 1],
               !.temp_thresholds = ntc, !.dietemp_thresholds = die] :
        c \in VariantConfigs, th \in {0, 1}, ntc \in NtcThresholds,
        die \in DieThresholds}

WithFlags(cs) ==
    {[c EXCEPT !.charging_enable = ce, !.vbatlow_charge_enable = vl,
               !.disable_recharge = dr] :
        c \in cs, ce \in BOOLEAN, vl \in BOOLEAN, dr \in BOOLEAN}

NotReady(cs) == {[c EXCEPT !.mfd_ready = FALSE] : c \in cs}

InitConfigs ==
    WithFlags(ElectricalConfigs \cup ThermalConfigs) \cup NotReady(VariantConfigs)

----------------------------------------------------------------------------
(* Threshold programming *)

\* calc_ntc_res: config->thermistor_ohms * exp(beta * (1/T - 1/T0)) converted to
\* uint32_t.  The values are those the source's single-precision expression
\* yields for the sampled thermistors (beta 3380) and temperatures.
calc_ntc_res(cfg, temp_mdegc) ==
    IF cfg.thermistor_ohms = 0 THEN 0
    ELSE CASE cfg.thermistor_ohms = 10000 /\ temp_mdegc = 0 -> 28223
           [] cfg.thermistor_ohms = 10000 /\ temp_mdegc = 10000 -> 18231
           [] cfg.thermistor_ohms = 10000 /\ temp_mdegc = 45000 -> 4903
           [] cfg.thermistor_ohms = 10000 /\ temp_mdegc = 60000 -> 3039
           [] cfg.thermistor_ohms = 47000 /\ temp_mdegc = 0 -> 132651
           [] cfg.thermistor_ohms = 47000 /\ temp_mdegc = 10000 -> 85687
           [] cfg.thermistor_ohms = 47000 /\ temp_mdegc = 45000 -> 23045
           [] cfg.thermistor_ohms = 47000 /\ temp_mdegc = 60000 -> 14284
           [] cfg.thermistor_ohms = 100000 /\ temp_mdegc = 0 -> 282237
           [] cfg.thermistor_ohms = 100000 /\ temp_mdegc = 10000 -> 182313
           [] cfg.thermistor_ohms = 100000 /\ temp_mdegc = 45000 -> 49034
           [] cfg.thermistor_ohms = 100000 /\ temp_mdegc = 60000 -> 30391

\* what an integer division by zero does on the build: it traps, or it yields
\* a quotient of 0 or of all ones (code: the quotient as uint16_t)
DivZero ==
    {[trap |-> TRUE, code |-> 0], [trap |-> FALSE, code |-> 0],
     [trap |-> FALSE, code |-> 65535]}

\* the outcomes of the division in set_ntc_thresholds that apply to cfg: with
\* a thermistor the divisor is never 0 and the choice is immaterial
DivZeroOf(cfg) ==
    IF cfg.thermistor_ohms = 0 THEN DivZero ELSE {[trap |-> FALSE, code |-> 0]}

\* is threshold idx programmed? (`< INT32_MAX`)
ThresholdSet(t) == t < INT32_MAX

\* uint16_t code = (1024 * res) / (res + config->thermistor_ohms), uint32_t
\* arithmetic (the sampled resistances keep 1024 * res below 2^31); the divisor
\* is 0 when there is no thermistor
NtcDivisor(cfg, res) == res + cfg.thermistor_ohms
NtcCode(cfg, res, ub) ==
    IF NtcDivisor(cfg, res) = 0 THEN ub.code
    ELSE U16((1024 * res) \div NtcDivisor(cfg, res))

\* one iteration of the loop of set_ntc_thresholds (idx from 0)
NtcStep(cfg, idx, ub) ==
    IF ThresholdSet(cfg.temp_thresholds[idx + 1])
    THEN LET res == calc_ntc_res(cfg, cfg.temp_thresholds[idx + 1])
             code == NtcCode(cfg, res, ub)
         IN  IF NtcDivisor(cfg, res) = 0 /\ ub.trap THEN << Trap >>
             ELSE << Call(mfd_npm13xx_reg_write2(CHGR_BASE,
                                                 CHGR_OFFSET_NTC_TEMPS + (idx * 2),
                                                 Shr(code, 2), And3(code)), TRUE) >>
    ELSE << >>

set_ntc_thresholds(cfg, ub) ==
    NtcStep(cfg, 0, ub) \o NtcStep(cfg, 1, ub) \o NtcStep(cfg, 2, ub)
        \o NtcStep(cfg, 3, ub)

\* uint16_t code = DIV_ROUND_CLOSEST((OFFSET - threshold) * DIV, MUL)
DietempCode(threshold) ==
    U16(DIV_ROUND_CLOSEST(I32Mul(DIETEMP_OFFSET_MDEGC - threshold, DIETEMP_FACTOR_DIV),
                          DIETEMP_FACTOR_MUL))

\* one iteration of the loop of set_dietemp_thresholds (idx from 0)
DietempStep(cfg, idx) ==
    IF ThresholdSet(cfg.dietemp_thresholds[idx + 1])
    THEN LET code == DietempCode(cfg.dietemp_thresholds[idx + 1])
         IN  << Call(mfd_npm13xx_reg_write2(CHGR_BASE,
                                            CHGR_OFFSET_DIE_TEMPS + (idx * 2),
                                            Shr(code, 2), And3(code)), TRUE) >>
    ELSE << >>

set_dietemp_thresholds(cfg) == DietempStep(cfg, 0) \o DietempStep(cfg, 1)

----------------------------------------------------------------------------
(* npm13xx_charger_init, in source order *)

\* Configure temperature thresholds
InitTempSteps(cfg, ub) ==
    << Call(mfd_npm13xx_reg_write(ADC_BASE, ADC_OFFSET_NTCR_SEL, cfg.thermistor_idx),
            TRUE) >>
        \o set_ntc_thresholds(cfg, ub)
        \o set_dietemp_thresholds(cfg)

\* termination voltages written without looking at the result of the lookups
InitTermStepsAnyResult(cfg) ==
    LET t == linear_range_group_get_win_index(cfg.term_volt_ranges,
                                              cfg.term_microvolt, cfg.term_microvolt)
        w == linear_range_group_get_win_index(cfg.term_volt_ranges,
                                              cfg.term_warm_microvolt,
                                              cfg.term_warm_microvolt)
    IN  << Call(mfd_npm13xx_reg_write(CHGR_BASE, CHGR_OFFSET_VTERM, t.idx), TRUE),
           Call(mfd_npm13xx_reg_write(CHGR_BASE, CHGR_OFFSET_VTERM_R, w.idx), TRUE) >>

\* Configure termination voltages
InitTermSteps(cfg) ==
    LET t == linear_range_group_get_win_index(cfg.term_volt_ranges,
                                              cfg.term_microvolt, cfg.term_microvolt)
        w == linear_range_group_get_win_index(cfg.term_volt_ranges,
                                              cfg.term_warm_microvolt,
                                              cfg.term_warm_microvolt)
    IN  << Lookup(t),
           Call(mfd_npm13xx_reg_write(CHGR_BASE, CHGR_OFFSET_VTERM, t.idx), TRUE),
           Lookup(w),
           Call(mfd_npm13xx_reg_write(CHGR_BASE, CHGR_OFFSET_VTERM_R, w.idx), TRUE) >>

\* a lookup that rounds the charge current up to the next step
InitCurrentLookupRoundingUp(cfg) ==
    linear_range_get_win_index(cfg.current_range,
                               cfg.current_microamp,
                               cfg.current_microamp + cfg.current_range.step - 1)

\* the lookup of the charge current: the window [current - step + 1, current]
InitCurrentLookup(cfg) ==
    linear_range_get_win_index(cfg.current_range,
                               cfg.current_microamp - cfg.current_range.step + 1,
                               cfg.current_microamp)

\* Set current, allow rounding down to closest value
InitCurrentSteps(cfg) ==
    LET c == InitCurrentLookup(cfg)
        dl == npm1300_discharge_limits[cfg.dischg_limit_idx + 1]
    IN  << Lookup(c) >> \o
        IF cfg.dischg_limit_idx = UINT8_MAX
        THEN \* Set only charge current MSB for nPM1304
             << Call(mfd_npm13xx_reg_write(CHGR_BASE, CHGR_OFFSET_ISET, c.idx), TRUE) >>
        ELSE \* Set charge current MSB and LSB and discharge limit for nPM1300
             << Call(mfd_npm13xx_reg_write2(CHGR_BASE, CHGR_OFFSET_ISET,
                                            c.idx \div 2, c.idx % 2), TRUE),
                Call(mfd_npm13xx_reg_write2(CHGR_BASE, CHGR_OFFSET_ISET_DISCHG,
                                            dl \div 2, dl % 2), TRUE) >>

\* InitVbusSteps with the result of the lookup ignored
InitVbusStepsNoLookupCheck(cfg) ==
    LET v == linear_range_get_win_index(vbus_current_range, cfg.vbus_limit_microamp,
                                        cfg.vbus_limit_microamp)
    IN  << Call(mfd_npm13xx_reg_write(VBUS_BASE, VBUS_OFFSET_ILIMSTARTUP, v.idx), TRUE) >>

\* Configure vbus current limit
InitVbusSteps(cfg) ==
    LET v == linear_range_get_win_index(vbus_current_range, cfg.vbus_limit_microamp,
                                        cfg.vbus_limit_microamp)
    IN  << Lookup(v),
           Call(mfd_npm13xx_reg_write(VBUS_BASE, VBUS_OFFSET_ILIMSTARTUP, v.idx), TRUE) >>

\* InitSelSteps with the check of the TRICKLE_SEL write forgotten
InitSelStepsUnchecked(cfg) ==
    << Call(mfd_npm13xx_reg_write(CHGR_BASE, CHGR_OFFSET_TRICKLE_SEL, cfg.trickle_sel),
            FALSE),
       Call(mfd_npm13xx_reg_write(CHGR_BASE, CHGR_OFFSET_ITERM_SEL, cfg.iterm_sel),
            TRUE) >>

\* Configure trickle voltage threshold and termination current
InitSelSteps(cfg) ==
    << Call(mfd_npm13xx_reg_write(CHGR_BASE, CHGR_OFFSET_TRICKLE_SEL, cfg.trickle_sel),
            TRUE),
       Call(mfd_npm13xx_reg_write(CHGR_BASE, CHGR_OFFSET_ITERM_SEL, cfg.iterm_sel),
            TRUE) >>

\* InitAdcSteps with the two triggers in the order sample_fetch uses
InitAdcStepsSwapped ==
    << Call(mfd_npm13xx_reg_write(ADC_BASE, ADC_OFFSET_IBAT_EN, 1), TRUE),
       Call(mfd_npm13xx_reg_write2(ADC_BASE, ADC_OFFSET_TASK_TEMP, 1, 1), TRUE),
       Call(mfd_npm13xx_reg_write(ADC_BASE, ADC_OFFSET_TASK_VBAT, 1), TRUE),
       Call(mfd_npm13xx_reg_write(ADC_BASE, ADC_OFFSET_TASK_AUTO, 1), TRUE) >>

\* Enable current measurement, trigger the measurements, enable automatic
\* temperature measurements
InitAdcSteps ==
    << Call(mfd_npm13xx_reg_write(ADC_BASE, ADC_OFFSET_IBAT_EN, 1), TRUE),
       Call(mfd_npm13xx_reg_write(ADC_BASE, ADC_OFFSET_TASK_VBAT, 1), TRUE),
       Call(mfd_npm13xx_reg_write2(ADC_BASE, ADC_OFFSET_TASK_TEMP, 1, 1), TRUE),
       Call(mfd_npm13xx_reg_write(ADC_BASE, ADC_OFFSET_TASK_AUTO, 1), TRUE) >>

\* Enable charging at low battery if configured
InitVbatlowSteps(cfg) ==
    IF cfg.vbatlow_charge_enable
    THEN << Call(mfd_npm13xx_reg_write(CHGR_BASE, CHGR_OFFSET_VBATLOW_EN, 1), TRUE) >>
    ELSE << >>

\* byte: bit 0 disables automatic recharging, bit 1 disables NTC
DisableByte(cfg) ==
    (IF cfg.disable_recharge THEN 1 ELSE 0) + (IF cfg.thermistor_idx = 0 THEN 2 ELSE 0)

\* a disable step that skips the write when no flag is set
InitDisableStepsWhenSet(cfg) ==
    IF DisableByte(cfg) = 0
    THEN << >>
    ELSE << Call(mfd_npm13xx_reg_write(CHGR_BASE, CHGR_OFFSET_DIS_SET,
                                       DisableByte(cfg)), TRUE) >>

InitDisableSteps(cfg) ==
    << Call(mfd_npm13xx_reg_write(CHGR_BASE, CHGR_OFFSET_DIS_SET, DisableByte(cfg)),
            TRUE) >>

\* Enable charging if configured
InitEnableSteps(cfg) ==
    IF cfg.charging_enable
    THEN << Call(mfd_npm13xx_reg_write(CHGR_BASE, CHGR_OFFSET_EN_SET, 1), TRUE) >>
    ELSE << >>

InitSteps(cfg, ub) ==
    InitTempSteps(cfg, ub) \o InitTermSteps(cfg) \o InitCurrentSteps(cfg)
        \o InitVbusSteps(cfg) \o InitSelSteps(cfg) \o InitAdcSteps
        \o InitVbatlowSteps(cfg) \o InitDisableSteps(cfg) \o InitEnableSteps(cfg)

\* an init that does not look at the readiness of the MFD parent
InitRunNoReadyCheck(cfg, plan, ub) == RunSteps(InitSteps(cfg, ub), 1, plan, << >>)

\* the whole of npm13xx_charger_init: [calls, ret, fault]
InitRun(cfg, plan, ub) ==
    IF ~cfg.mfd_ready
    THEN [calls |-> << >>, ret |-> -ENODEV, fault |-> FALSE]
    ELSE RunSteps(InitSteps(cfg, ub), 1, plan, << >>)

----------------------------------------------------------------------------
(* State *)

NoArgs == [chan |-> "none", attr |-> "none", val1 |-> 0, val2 |-> 0]
NoOut == [set |-> FALSE, val1 |-> 0, val2 |-> 0]

\* static struct npm13xx_charger_data: zero-initialised
ZeroData ==
    [voltage |-> 0, current |-> 0, temp |-> 0, dietemp |-> 0,
     status |-> 0, error |-> 0, ibat_stat |-> 0, vbus_stat |-> 0]

\* no sample_fetch call is in progress
NoFetch == [pc |-> 0, plan |-> [at |-> 0, err |-> 0, after |-> 0],
            in |-> [status |-> 0, error |-> 0, burst |-> << >>, vbus |-> 0],
            calls |-> << >>]

Constructed ==
    /\ inflight = NoFetch
    /\ data = ZeroData
    /\ phase = "boot"
    /\ op = "none"
    /\ args = NoArgs
    /\ calls = << >>
    /\ ret = 0
    /\ out = NoOut

npm13xx_charger_init ==
    /\ phase = "boot"
    /\ \E plan \in Plans, ub \in DivZeroOf(config) :
        \E r \in {InitRun(config, plan, ub)} :
            /\ op' = "init"
            /\ args' = NoArgs
            /\ calls' = r.calls
            /\ ret' = r.ret
            /\ out' = NoOut
            /\ phase' = IF r.fault THEN "fault"
                        ELSE IF r.ret = 0 THEN "ready" ELSE "failed"
    /\ UNCHANGED << config, data, inflight >>

(* Device initialisation alone, over the sampled configurations *)
InitBoot == config \in InitConfigs /\ Constructed
NextBoot == npm13xx_charger_init
SpecInit == InitBoot /\ [][NextBoot]_vars

----------------------------------------------------------------------------
(* Unit converters and channel_get *)

\* C remainder: the sign follows the dividend
CMod(n, d) == n - d * CDiv(n, d)

\* sensor_value_from_milli / sensor_value_from_micro (drivers/sensor.h)
sensor_value_from_milli(milli) ==
    [set |-> TRUE, val1 |-> CDiv(milli, 1000), val2 |-> CMod(milli, 1000) * 1000]
sensor_value_from_micro(micro) ==
    [set |-> TRUE, val1 |-> CDiv(micro, 1000000), val2 |-> CMod(micro, 1000000)]

\* calc_temp: 1 / (1/298.15 - ln(1024/code - 1) / beta) - 273.15 through
\* sensor_value_from_float.  The values are those the source's single-precision
\* expression yields for beta 3380 and the sampled codes; code 0 divides by
\* zero in floating point (infinity) and ends at -273.15.
calc_temp(cfg, code) ==
    CASE code = 0 -> [set |-> TRUE, val1 |-> -273, val2 |-> -149993]
      [] code = 1 -> [set |-> TRUE, val1 |-> 493, val2 |-> 971588]
      [] code = 512 -> [set |-> TRUE, val1 |-> 25, val2 |-> 0]
      [] code = 514 -> [set |-> TRUE, val1 |-> 24, val2 |-> 794677]
      [] code = 1022 -> [set |-> TRUE, val1 |-> -80, val2 |-> -808898]
      [] code = 1023 -> [set |-> TRUE, val1 |-> -88, val2 |-> -117614]

\* calc_dietemp: int32_t temp = OFFSET - ((int32_t)code * MUL) / DIV
DietempMdegc(code) ==
    DIETEMP_OFFSET_MDEGC - CDiv(I32Mul(code, DIETEMP_FACTOR_MUL), DIETEMP_FACTOR_DIV)
calc_dietemp(cfg, code) == sensor_value_from_milli(DietempMdegc(code))

\* Ibat status
IBAT_STAT_DISCHARGE == 4
IBAT_STAT_CHARGE_TRICKLE == 12
IBAT_STAT_CHARGE_COOL == 13
IBAT_STAT_CHARGE_NORMAL == 15

\* calc_current: full_scale_ua by ibat_stat
FullScaleUa(cfg, d) ==
    IF d.ibat_stat = IBAT_STAT_DISCHARGE
    THEN CDiv(I32Mul(-cfg.dischg_limit_microamp, cfg.full_scale_discharge_factors[1]),
              cfg.full_scale_discharge_factors[2])
    ELSE IF d.ibat_stat \in {IBAT_STAT_CHARGE_TRICKLE, IBAT_STAT_CHARGE_COOL,
                             IBAT_STAT_CHARGE_NORMAL}
    THEN CDiv(I32Mul(cfg.current_microamp, full_scale_charge_factors[1]),
              full_scale_charge_factors[2])
    ELSE 0

\* a scaling by the number of codes instead of the largest code
CurrentUaBy1024(cfg, d) == CDiv(I32Mul(d.current, FullScaleUa(cfg, d)), 1024)

\* current_ua = (data->current * full_scale_ua) / 1023
CurrentUa(cfg, d) == CDiv(I32Mul(d.current, FullScaleUa(cfg, d)), 1023)
calc_current(cfg, d) == sensor_value_from_micro(CurrentUa(cfg, d))

\* channels and attributes the model passes to the handlers: the ones the
\* driver names, and one of each that it does not
Chans ==
    {"SENSOR_CHAN_GAUGE_VOLTAGE", "SENSOR_CHAN_GAUGE_TEMP",
     "SENSOR_CHAN_GAUGE_AVG_CURRENT", "SENSOR_CHAN_NPM13XX_CHARGER_STATUS",
     "SENSOR_CHAN_NPM13XX_CHARGER_ERROR",
     "SENSOR_CHAN_GAUGE_DESIRED_CHARGING_CURRENT",
     "SENSOR_CHAN_GAUGE_MAX_LOAD_CURRENT", "SENSOR_CHAN_DIE_TEMP",
     "SENSOR_CHAN_NPM13XX_CHARGER_VBUS_STATUS", "SENSOR_CHAN_CURRENT",
     "SENSOR_CHAN_ALL"}

\* the whole of npm13xx_charger_channel_get: [ret, out]
ChannelGetRun(cfg, d, chan) ==
    CASE chan = "SENSOR_CHAN_GAUGE_VOLTAGE" ->
            [ret |-> 0, out |-> sensor_value_from_milli(CDiv(d.voltage * 5000, 1024))]
      [] chan = "SENSOR_CHAN_GAUGE_TEMP" ->
            IF cfg.thermistor_idx = 0
            THEN [ret |-> -ENOTSUP, out |-> NoOut]
            ELSE [ret |-> 0, out |-> calc_temp(cfg, d.temp)]
      [] chan = "SENSOR_CHAN_GAUGE_AVG_CURRENT" ->
            [ret |-> 0, out |-> calc_current(cfg, d)]
      [] chan = "SENSOR_CHAN_NPM13XX_CHARGER_STATUS" ->
            [ret |-> 0, out |-> [set |-> TRUE, val1 |-> d.status, val2 |-> 0]]
      [] chan = "SENSOR_CHAN_NPM13XX_CHARGER_ERROR" ->
            [ret |-> 0, out |-> [set |-> TRUE, val1 |-> d.error, val2 |-> 0]]
      [] chan = "SENSOR_CHAN_GAUGE_DESIRED_CHARGING_CURRENT" ->
            [ret |-> 0, out |-> sensor_value_from_micro(cfg.current_microamp)]
      [] chan = "SENSOR_CHAN_GAUGE_MAX_LOAD_CURRENT" ->
            [ret |-> 0, out |-> sensor_value_from_micro(cfg.dischg_limit_microamp)]
      [] chan = "SENSOR_CHAN_DIE_TEMP" ->
            [ret |-> 0, out |-> calc_dietemp(cfg, d.dietemp)]
      [] chan = "SENSOR_CHAN_NPM13XX_CHARGER_VBUS_STATUS" ->
            [ret |-> 0, out |-> [set |-> TRUE, val1 |-> d.vbus_stat, val2 |-> 0]]
      [] OTHER -> [ret |-> -ENOTSUP, out |-> NoOut]

\* does (int32_t)code * DIETEMP_FACTOR_MUL leave int32_t?  The product is a
\* signed overflow then: the build wraps it, or traps on it.
DietempOverflows(code) == code > INT32_MAX \div DIETEMP_FACTOR_MUL
\* the three __ASSERT_NO_MSG of calc_current
CalcCurrentAsserts(cfg, d) ==
    /\ d.current <= 1023
    /\ FullScaleUa(cfg, d) <= 1000000
    /\ FullScaleUa(cfg, d) >= -1120000

\* what a channel_get can do on the build: an overflowing product wraps or
\* traps; a failed assertion stops the system where assertions are compiled
\* in and is skipped where they are not
ChannelGetOutcomes(cfg, d, chan) ==
    IF chan = "SENSOR_CHAN_DIE_TEMP" /\ DietempOverflows(d.dietemp)
    THEN {"wrap", "trap"}
    ELSE IF chan = "SENSOR_CHAN_GAUGE_AVG_CURRENT" /\ ~CalcCurrentAsserts(cfg, d)
    THEN {"defined", "trap"}
    ELSE {"defined"}

\* a channel_get that consumes the status it reports
npm13xx_charger_channel_get_consuming ==
    /\ phase = "ready"
    /\ \E chan \in Chans :
        \E r \in {ChannelGetRun(config, data, chan)} :
            /\ op' = "channel_get"
            /\ args' = [NoArgs EXCEPT !.chan = chan]
            /\ calls' = << >>
            /\ ret' = r.ret
            /\ out' = r.out
            /\ data' = IF chan = "SENSOR_CHAN_NPM13XX_CHARGER_STATUS"
                       THEN [data EXCEPT !.status = 0] ELSE data
    /\ UNCHANGED << config, phase, inflight >>

npm13xx_charger_channel_get ==
    /\ phase = "ready"
    /\ \E chan \in Chans :
        \E ub \in ChannelGetOutcomes(config, data, chan) :
            \E r \in {ChannelGetRun(config, data, chan)} :
                /\ op' = "channel_get"
                /\ args' = [NoArgs EXCEPT !.chan = chan]
                /\ calls' = << >>
                /\ ret' = IF ub = "trap" THEN 0 ELSE r.ret
                /\ out' = IF ub = "trap" THEN NoOut ELSE r.out
                /\ phase' = IF ub = "trap" THEN "fault" ELSE phase
    /\ UNCHANGED << config, data, inflight >>

----------------------------------------------------------------------------
(* sample_fetch *)

\* struct adc_results_t: the 11 bytes of the burst read, fields from 1
AdcResults(b) ==
    [ibat_stat |-> b[1], msb_vbat |-> b[2], msb_ntc |-> b[3], msb_die |-> b[4],
     msb_vsys |-> b[5], lsb_a |-> b[6], reserved1 |-> b[7], reserved2 |-> b[8],
     msb_ibat |-> b[9], msb_vbus |-> b[10], lsb_b |-> b[11]]

\* ADC result masks
ADC_LSB_VBAT_SHIFT == 0
ADC_LSB_NTC_SHIFT == 2
ADC_LSB_DIE_SHIFT == 4
ADC_LSB_IBAT_SHIFT == 4

\* a decoder that takes the two low bits of the LSB byte for every channel
adc_get_res_unshifted(msb, lsb, lsb_shift) == U16(msb * 4) + And3(lsb)

\* ((uint16_t)msb << 2) | ((lsb >> lsb_shift) & 0x03)
adc_get_res(msb, lsb, lsb_shift) == U16(msb * 4) + And3(Shr(lsb, lsb_shift))

\* the bytes the hardware delivers to the reads of one sample_fetch
BurstSamples ==
    {<< 4, 208, 128, 96, 0, 27, 0, 0, 64, 0, 32 >>,
     << 4, 208, 128, 96, 255, 27, 255, 255, 64, 255, 32 >>,
     << 15, 255, 255, 255, 255, 255, 255, 255, 255, 255, 255 >>,
     << 0, 0, 0, 0, 0, 0, 0, 0, 0, 0, 0 >>,
     << 12, 0, 128, 135, 0, 16, 0, 0, 255, 0, 48 >>,
     << 13, 0, 128, 135, 0, 32, 0, 0, 128, 0, 0 >>,
     << 4, 0, 128, 128, 0, 0, 0, 0, 255, 0, 48 >>,
     << 7, 1, 128, 0, 0, 0, 0, 0, 255, 0, 48 >>}
FetchInputs ==
    [status : {8}, error : {2}, burst : BurstSamples, vbus : {1, 42}]

\* data after the burst read was decoded
Decoded(d, results) ==
    [d EXCEPT !.voltage = adc_get_res(results.msb_vbat, results.lsb_a, ADC_LSB_VBAT_SHIFT),
              !.temp = adc_get_res(results.msb_ntc, results.lsb_a, ADC_LSB_NTC_SHIFT),
              !.dietemp = adc_get_res(results.msb_die, results.lsb_a, ADC_LSB_DIE_SHIFT),
              !.current = adc_get_res(results.msb_ibat, results.lsb_b, ADC_LSB_IBAT_SHIFT),
              !.ibat_stat = results.ibat_stat]

\* a fetch that triggers the battery voltage measurement in both places
FetchTriggerVbatFirst == mfd_npm13xx_reg_write(ADC_BASE, ADC_OFFSET_TASK_VBAT, 1)

\* Trigger ntc and die temperature measurements
FetchTriggerTemp == mfd_npm13xx_reg_write2(ADC_BASE, ADC_OFFSET_TASK_TEMP, 1, 1)

\* Trigger current and voltage measurement
FetchTriggerVbat == mfd_npm13xx_reg_write(ADC_BASE, ADC_OFFSET_TASK_VBAT, 1)

\* the whole of npm13xx_charger_sample_fetch: [calls, ret, data].  A read
\* stores its byte in the Live Sample State as it completes.
FetchRun(d, plan, in) ==
    LET r1 == RetOf(plan, 1)
        c1 == Done(mfd_npm13xx_reg_read(CHGR_BASE, CHGR_OFFSET_CHG_STAT),
                   IF r1 = 0 THEN << in.status >> ELSE << >>, r1)
        d1 == IF r1 = 0 THEN [d EXCEPT !.status = in.status] ELSE d
        r2 == RetOf(plan, 2)
        c2 == Done(mfd_npm13xx_reg_read(CHGR_BASE, CHGR_OFFSET_ERR_REASON),
                   IF r2 = 0 THEN << in.error >> ELSE << >>, r2)
        d2 == IF r2 = 0 THEN [d1 EXCEPT !.error = in.error] ELSE d1
        r3 == RetOf(plan, 3)
        c3 == Done(mfd_npm13xx_reg_read_burst(ADC_BASE, ADC_OFFSET_RESULTS),
                   IF r3 = 0 THEN in.burst ELSE << >>, r3)
        d3 == Decoded(d2, AdcResults(in.burst))
        r4 == RetOf(plan, 4)
        c4 == Done(FetchTriggerTemp, << >>, r4)
        r5 == RetOf(plan, 5)
        c5 == Done(FetchTriggerVbat, << >>, r5)
        r6 == RetOf(plan, 6)
        c6 == Done(mfd_npm13xx_reg_read(VBUS_BASE, VBUS_OFFSET_STATUS),
                   IF r6 = 0 THEN << in.vbus >> ELSE << >>, r6)
        d6 == IF r6 = 0 THEN [d3 EXCEPT !.vbus_stat = in.vbus] ELSE d3
    IN  IF r1 # 0 THEN [calls |-> << c1 >>, ret |-> r1, data |-> d1]
        ELSE IF r2 # 0 THEN [calls |-> << c1, c2 >>, ret |-> r2, data |-> d2]
        ELSE IF r3 # 0 THEN [calls |-> << c1, c2, c3 >>, ret |-> r3, data |-> d2]
        ELSE IF r4 # 0 THEN [calls |-> << c1, c2, c3, c4 >>, ret |-> r4, data |-> d3]
        ELSE IF r5 # 0
             THEN [calls |-> << c1, c2, c3, c4, c5 >>, ret |-> r5, data |-> d3]
        ELSE [calls |-> << c1, c2, c3, c4, c5, c6 >>, ret |-> r6, data |-> d6]

npm13xx_charger_sample_fetch ==
    /\ phase = "ready"
    /\ \E plan \in Plans, in \in FetchInputs :
        \E r \in {FetchRun(data, plan, in)} :
            /\ op' = "fetch"
            /\ args' = [NoArgs EXCEPT !.chan = "SENSOR_CHAN_ALL"]
            /\ calls' = r.calls
            /\ ret' = r.ret
            /\ out' = NoOut
            /\ data' = r.data
    /\ UNCHANGED << config, phase, inflight >>

(* The telemetry side of an instance: initialisation, then sample_fetch and *)
(* channel_get calls, one at a time, in any order                           *)
TelemetryConfigs ==
    {Npm1300Config(1), Npm1304Config,
     [Npm1300Config(0) EXCEPT !.thermistor_idx = 0, !.thermistor_ohms = 0],
     [Npm1300Config(1) EXCEPT !.current_microamp = 801000],
     [Npm1300Config(0) EXCEPT !.current_microamp = 800000]}

Init == config \in TelemetryConfigs /\ Constructed
Next ==
    \/ npm13xx_charger_init
    \/ npm13xx_charger_sample_fetch
    \/ npm13xx_charger_channel_get
Spec == Init /\ [][Next]_vars

----------------------------------------------------------------------------
(* attr_get and attr_set *)

Attrs ==
    {"SENSOR_ATTR_CONFIGURATION", "SENSOR_ATTR_UPPER_THRESH",
     "SENSOR_ATTR_LOWER_THRESH",
     "SENSOR_ATTR_NPM13XX_CHARGER_VBUS_PRESENT",
     "SENSOR_ATTR_NPM13XX_CHARGER_VBUS_CUR_LIMIT",
     "SENSOR_ATTR_NPM13XX_CHARGER_VBUS_OVERVLT_PROT",
     "SENSOR_ATTR_NPM13XX_CHARGER_VBUS_UNDERVLT",
     "SENSOR_ATTR_NPM13XX_CHARGER_VBUS_SUSPENDED",
     "SENSOR_ATTR_NPM13XX_CHARGER_VBUS_BUSOUT"}

\* the channels passed to the attribute handlers
AttrChans ==
    {"SENSOR_CHAN_GAUGE_DESIRED_CHARGING_CURRENT", "SENSOR_CHAN_CURRENT",
     "SENSOR_CHAN_NPM13XX_CHARGER_VBUS_STATUS", "SENSOR_CHAN_GAUGE_VOLTAGE",
     "SENSOR_CHAN_ALL"}

\* the plans that differ within the first n calls
PlansUpTo(n) == {p \in Plans : p.at <= n}

\* VBUS detect masks
DETECT_HI_CURRENT == 1500000
DETECT_LO_CURRENT == 500000

\* (data & mask) != 0 for the single-bit mask 2^bit
BitSet(byte, bit) == (byte \div Pow2(bit)) % 2 = 1

\* (data & DETECT_HI_MASK) != 0, DETECT_HI_MASK = 0x0A
DetectHi(byte) == BitSet(byte, 1) \/ BitSet(byte, 3)

\* the bit of the VBUS status byte an attribute names (STATUS_*_MASK), or -1
VbusStatusBit(attr) ==
    CASE attr = "SENSOR_ATTR_NPM13XX_CHARGER_VBUS_PRESENT" -> 0
      [] attr = "SENSOR_ATTR_NPM13XX_CHARGER_VBUS_CUR_LIMIT" -> 1
      [] attr = "SENSOR_ATTR_NPM13XX_CHARGER_VBUS_OVERVLT_PROT" -> 2
      [] attr = "SENSOR_ATTR_NPM13XX_CHARGER_VBUS_UNDERVLT" -> 3
      [] attr = "SENSOR_ATTR_NPM13XX_CHARGER_VBUS_SUSPENDED" -> 4
      [] attr = "SENSOR_ATTR_NPM13XX_CHARGER_VBUS_BUSOUT" -> 5
      [] OTHER -> -1

\* a register read: the completed call and the byte delivered
ReadOf(base, off, byte, r) ==
    Done(mfd_npm13xx_reg_read(base, off), IF r = 0 THEN << byte >> ELSE << >>, r)

\* the whole of npm13xx_charger_attr_get: [calls, ret, out]; byte is what the
\* register read delivers
AttrGetRun(chan, attr, plan, byte) ==
    LET r == RetOf(plan, 1)
    IN  CASE chan = "SENSOR_CHAN_GAUGE_DESIRED_CHARGING_CURRENT" ->
                IF attr # "SENSOR_ATTR_CONFIGURATION"
                THEN [calls |-> << >>, ret |-> -ENOTSUP, out |-> NoOut]
                ELSE [calls |-> << ReadOf(CHGR_BASE, CHGR_OFFSET_EN_SET, byte, r) >>,
                      ret |-> r,
                      out |-> IF r = 0 THEN [set |-> TRUE, val1 |-> byte, val2 |-> 0]
                              ELSE NoOut]
          [] chan = "SENSOR_CHAN_CURRENT" ->
                IF attr # "SENSOR_ATTR_UPPER_THRESH"
                THEN [calls |-> << >>, ret |-> -ENOTSUP, out |-> NoOut]
                ELSE IF r < 0
                THEN [calls |-> << ReadOf(VBUS_BASE, VBUS_OFFSET_DETECT, byte, r) >>,
                      ret |-> r, out |-> NoOut]
                ELSE [calls |-> << ReadOf(VBUS_BASE, VBUS_OFFSET_DETECT, byte, r) >>,
                      ret |-> 0,
                      out |-> IF byte = 0 THEN sensor_value_from_micro(0)
                              ELSE IF DetectHi(byte)
                              THEN sensor_value_from_micro(DETECT_HI_CURRENT)
                              ELSE sensor_value_from_micro(DETECT_LO_CURRENT)]
          [] chan = "SENSOR_CHAN_NPM13XX_CHARGER_VBUS_STATUS" ->
                IF r < 0
                THEN [calls |-> << ReadOf(VBUS_BASE, VBUS_OFFSET_STATUS, byte, r) >>,
                      ret |-> r, out |-> NoOut]
                ELSE IF VbusStatusBit(attr) = -1
                THEN [calls |-> << ReadOf(VBUS_BASE, VBUS_OFFSET_STATUS, byte, r) >>,
                      ret |-> -ENOTSUP, out |-> NoOut]
                ELSE [calls |-> << ReadOf(VBUS_BASE, VBUS_OFFSET_STATUS, byte, r) >>,
                      ret |-> 0,
                      out |-> [set |-> TRUE,
                               val1 |-> IF BitSet(byte, VbusStatusBit(attr)) THEN 1 ELSE 0,
                               val2 |-> 0]]
          [] OTHER -> [calls |-> << >>, ret |-> -ENOTSUP, out |-> NoOut]

AttrReadSamples == {0, 1, 42}

npm13xx_charger_attr_get ==
    /\ phase = "ready"
    /\ \E chan \in AttrChans, attr \in Attrs, plan \in PlansUpTo(1),
          byte \in AttrReadSamples :
        \E r \in {AttrGetRun(chan, attr, plan, byte)} :
            /\ op' = "attr_get"
            /\ args' = [NoArgs EXCEPT !.chan = chan, !.attr = attr]
            /\ calls' = r.calls
            /\ ret' = r.ret
            /\ out' = r.out
    /\ UNCHANGED << config, data, phase, inflight >>

\* a disable path that clears the charger errors before disabling
DisableChargingStepsClearing ==
    << Call(mfd_npm13xx_reg_write(CHGR_BASE, CHGR_OFFSET_ERR_CLR, 1), TRUE),
       Call(mfd_npm13xx_reg_write(CHGR_BASE, CHGR_OFFSET_EN_CLR, 1), TRUE) >>

\* Disable charging
DisableChargingSteps ==
    << Call(mfd_npm13xx_reg_write(CHGR_BASE, CHGR_OFFSET_EN_CLR, 1), TRUE) >>

\* Clear any errors and enable charging
EnableChargingSteps ==
    << Call(mfd_npm13xx_reg_write(CHGR_BASE, CHGR_OFFSET_ERR_CLR, 1), TRUE),
       Call(mfd_npm13xx_reg_write(CHGR_BASE, CHGR_OFFSET_EN_SET, 1), TRUE) >>

\* int32_t current = (val->val1 * 1000000) + val->val2
AttrSetCurrent(val1, val2) == I32Mul(val1, 1000000) + val2

\* a limit path that triggers the update before it programs the limit
SetVbusLimitStepsUpdateFirst(current) ==
    LET l == linear_range_get_win_index(vbus_current_range, current, current)
    IN  << Lookup(l),
           Call(mfd_npm13xx_reg_write(VBUS_BASE, VBUS_OFFSET_ILIMUPDATE, 1), TRUE),
           Call(mfd_npm13xx_reg_write(VBUS_BASE, VBUS_OFFSET_ILIM, l.idx), TRUE) >>

\* Set vbus current limit
SetVbusLimitSteps(current) ==
    LET l == linear_range_get_win_index(vbus_current_range, current, current)
    IN  << Lookup(l),
           Call(mfd_npm13xx_reg_write(VBUS_BASE, VBUS_OFFSET_ILIM, l.idx), TRUE),
           Call(mfd_npm13xx_reg_write(VBUS_BASE, VBUS_OFFSET_ILIMUPDATE, 1), TRUE) >>

\* `if (val->val1 == 0)`: is the written value a request to disable charging?
IsDisableRequest(val1, val2) == val1 = 0

\* the attribute attr_set accepts
AttrSetAttribute == "SENSOR_ATTR_CONFIGURATION"

\* the whole of npm13xx_charger_attr_set: [calls, ret, fault]
AttrSetRun(chan, attr, val1, val2, plan) ==
    IF attr # AttrSetAttribute
    THEN [calls |-> << >>, ret |-> -ENOTSUP, fault |-> FALSE]
    ELSE CASE chan = "SENSOR_CHAN_GAUGE_DESIRED_CHARGING_CURRENT" ->
                 IF IsDisableRequest(val1, val2)
                 THEN RunSteps(DisableChargingSteps, 1, plan, << >>)
                 ELSE RunSteps(EnableChargingSteps, 1, plan, << >>)
           [] chan = "SENSOR_CHAN_CURRENT" ->
                 RunSteps(SetVbusLimitSteps(AttrSetCurrent(val1, val2)), 1, plan, << >>)
           [] OTHER -> [calls |-> << >>, ret |-> -ENOTSUP, fault |-> FALSE]

\* the sensor_value arguments passed to attr_set: << val1, val2 >>
AttrSetValues ==
    {<< 0, 0 >>, << 1, 0 >>, << 0, 500000 >>, << 0, 150000 >>, << 1, 500000 >>,
     << 2, 0 >>, << 0, 100000 >>, << 0, 99999 >>, << 1, 600000 >>, << -1, 0 >>}

npm13xx_charger_attr_set ==
    /\ phase = "ready"
    /\ \E chan \in AttrChans, attr \in Attrs, val \in AttrSetValues,
          plan \in PlansUpTo(2) :
        \E r \in {AttrSetRun(chan, attr, val[1], val[2], plan)} :
            /\ op' = "attr_set"
            /\ args' = [chan |-> chan, attr |-> attr, val1 |-> val[1], val2 |-> val[2]]
            /\ calls' = r.calls
            /\ ret' = r.ret
            /\ out' = NoOut
    /\ UNCHANGED << config, data, phase, inflight >>

(* The attribute side of an instance: initialisation, then attr_get,        *)
(* attr_set and channel_get calls, one at a time, in any order.  The        *)
(* attribute handlers neither read nor write the Live Sample State.         *)
AttrConfigs == {Npm1300Config(1), Npm1304Config}

InitAttr == config \in AttrConfigs /\ Constructed
NextAttr ==
    \/ npm13xx_charger_init
    \/ npm13xx_charger_attr_get
    \/ npm13xx_charger_attr_set
    \/ npm13xx_charger_channel_get
SpecAttr == InitAttr /\ [][NextAttr]_vars

----------------------------------------------------------------------------
(* sample_fetch statement by statement, for callers that do not serialize   *)
(* their calls: a channel_get of another thread can run between any two    *)
(* statements of a sample_fetch in progress.                                *)

\* the statements of sample_fetch that touch the transport or the Live Sample
\* State, numbered in source order: 1 read CHG_STAT into data->status, 2 read
\* ERR_REASON into data->error, 3 burst read into results, 4..8 the stores of
\* voltage, temp, dietemp, current, ibat_stat, 9 and 10 the two triggers,
\* 11 read VBUS STATUS into data->vbus_stat
FetchLastStep == 11

\* the transport call of statement pc (statements 4..8 make none)
FetchStepCall(pc) ==
    CASE pc = 1 -> mfd_npm13xx_reg_read(CHGR_BASE, CHGR_OFFSET_CHG_STAT)
      [] pc = 2 -> mfd_npm13xx_reg_read(CHGR_BASE, CHGR_OFFSET_ERR_REASON)
      [] pc = 3 -> mfd_npm13xx_reg_read_burst(ADC_BASE, ADC_OFFSET_RESULTS)
      [] pc = 9 -> FetchTriggerTemp
      [] pc = 10 -> FetchTriggerVbat
      [] pc = 11 -> mfd_npm13xx_reg_read(VBUS_BASE, VBUS_OFFSET_STATUS)

\* the bytes the hardware delivers to the call of statement pc
FetchStepBytes(pc, in) ==
    CASE pc = 1 -> << in.status >>
      [] pc = 2 -> << in.error >>
      [] pc = 3 -> in.burst
      [] pc = 11 -> << in.vbus >>
      [] OTHER -> << >>

\* statements 4..8 without the store of ibat_stat
FetchStepStoreNoIbatStat(d, pc, in) ==
    LET results == AdcResults(in.burst)
    IN  CASE pc = 1 -> [d EXCEPT !.status = in.status]
          [] pc = 2 -> [d EXCEPT !.error = in.error]
          [] pc = 4 -> [d EXCEPT !.voltage = adc_get_res(results.msb_vbat,
                                              results.lsb_a, ADC_LSB_VBAT_SHIFT)]
          [] pc = 5 -> [d EXCEPT !.temp = adc_get_res(results.msb_ntc,
                                              results.lsb_a, ADC_LSB_NTC_SHIFT)]
          [] pc = 6 -> [d EXCEPT !.dietemp = adc_get_res(results.msb_die,
                                              results.lsb_a, ADC_LSB_DIE_SHIFT)]
          [] pc = 7 -> [d EXCEPT !.current = adc_get_res(results.msb_ibat,
                                              results.lsb_b, ADC_LSB_IBAT_SHIFT)]
          [] pc = 11 -> [d EXCEPT !.vbus_stat = in.vbus]
          [] OTHER -> d

\* the Live Sample State after the store of statement pc
FetchStepStore(d, pc, in) ==
    LET results == AdcResults(in.burst)
    IN  CASE pc = 1 -> [d EXCEPT !.status = in.status]
          [] pc = 2 -> [d EXCEPT !.error = in.error]
          [] pc = 4 -> [d EXCEPT !.voltage = adc_get_res(results.msb_vbat,
                                              results.lsb_a, ADC_LSB_VBAT_SHIFT)]
          [] pc = 5 -> [d EXCEPT !.temp = adc_get_res(results.msb_ntc,
                                              results.lsb_a, ADC_LSB_NTC_SHIFT)]
          [] pc = 6 -> [d EXCEPT !.dietemp = adc_get_res(results.msb_die,
                                              results.lsb_a, ADC_LSB_DIE_SHIFT)]
          [] pc = 7 -> [d EXCEPT !.current = adc_get_res(results.msb_ibat,
                                              results.lsb_b, ADC_LSB_IBAT_SHIFT)]
          [] pc = 8 -> [d EXCEPT !.ibat_stat = results.ibat_stat]
          [] pc = 11 -> [d EXCEPT !.vbus_stat = in.vbus]
          [] OTHER -> d

\* one statement of the fetch f on the state d:
\* [data, calls, ret, returned]
FetchStepRun(d, f) ==
    IF f.pc \in 4..8
    THEN [data |-> FetchStepStore(d, f.pc, f.in), calls |-> f.calls,
          ret |-> 0, returned |-> FALSE]
    ELSE LET r == RetOf(f.plan, Len(f.calls) + 1)
             c == Done(FetchStepCall(f.pc),
                       IF r = 0 THEN FetchStepBytes(f.pc, f.in) ELSE << >>, r)
         IN  [data |-> IF r = 0 THEN FetchStepStore(d, f.pc, f.in) ELSE d,
              calls |-> Append(f.calls, c),
              ret |-> r,
              returned |-> r # 0 \/ f.pc = FetchLastStep]

\* two whole samples that differ in every field
ConcSamples ==
    {[status |-> 8, error |-> 2, burst |-> << 4, 208, 128, 96, 0, 27, 0, 0, 64, 0, 32 >>,
      vbus |-> 1],
     [status |-> 4, error |-> 1,
      burst |-> << 15, 255, 255, 255, 255, 255, 255, 255, 255, 255, 255 >>,
      vbus |-> 42]}

\* the effect of one statement of a fetch on the variables
FetchAdvance(f) ==
    \E r \in {FetchStepRun(data, f)} :
        /\ data' = r.data
        /\ op' = "fetch"
        /\ args' = [NoArgs EXCEPT !.chan = "SENSOR_CHAN_ALL"]
        /\ calls' = r.calls
        /\ ret' = r.ret
        /\ out' = NoOut
        /\ inflight' = IF r.returned THEN NoFetch
                       ELSE [f EXCEPT !.pc = f.pc + 1, !.calls = r.calls]
        /\ UNCHANGED << config, phase >>

\* a thread enters sample_fetch and executes its first statement
npm13xx_charger_sample_fetch_enter ==
    /\ phase = "ready"
    /\ inflight.pc = 0
    /\ \E plan \in PlansUpTo(6), in \in ConcSamples :
        FetchAdvance([pc |-> 1, plan |-> plan, in |-> in, calls |-> << >>])

\* the thread inside sample_fetch executes its next statement
npm13xx_charger_sample_fetch_step ==
    /\ phase = "ready"
    /\ inflight.pc # 0
    /\ FetchAdvance(inflight)

(* An instance whose callers do not serialize: init, then sample_fetch      *)
(* statement by statement with channel_get calls of another thread between  *)
(* its statements.                                                          *)
ConcConfigs == {Npm1300Config(1), Npm1304Config}

InitConc == config \in ConcConfigs /\ Constructed
NextConc ==
    \/ npm13xx_charger_init
    \/ npm13xx_charger_sample_fetch_enter
    \/ npm13xx_charger_sample_fetch_step
    \/ npm13xx_charger_channel_get
SpecConc == InitConc /\ [][NextConc]_vars

----------------------------------------------------------------------------
(* Properties of npm13xx_charger_init *)

\* is call c an access of register (base, off)?
At(c, base, off) == c.base = base /\ c.off = off

\* the positions in `calls` of the accesses of register (base, off)
Accesses(base, off) == {k \in 1..Len(calls) : At(calls[k], base, off)}

\* C1: init is fail-fast: a transport call of init that returns nonzero is the
\* last register access of the run (nothing follows it, it is not repeated) and
\* init returns exactly its value.
C1_InitFailFast ==
    op = "init" =>
        \A k \in 1..Len(calls) :
            calls[k].ret # 0 =>
                /\ k = Len(calls)
                /\ ret = calls[k].ret
                /\ phase = "failed"

\* a write inside set_ntc_thresholds failed after earlier accesses succeeded
C1_Witness ==
    /\ op = "init"
    /\ Len(calls) >= 3
    /\ At(calls[Len(calls)], CHGR_BASE, CHGR_OFFSET_NTC_TEMPS + 2)
    /\ calls[Len(calls)].ret = -EIO
    /\ ret = -EIO

\* The writes of init in their fixed order: register, kind of write, rank n
InitOrder ==
    << [n |-> 1, kind |-> "write", base |-> ADC_BASE, off |-> ADC_OFFSET_NTCR_SEL],
       [n |-> 2, kind |-> "write2", base |-> CHGR_BASE, off |-> CHGR_OFFSET_NTC_TEMPS],
       [n |-> 3, kind |-> "write2", base |-> CHGR_BASE, off |-> CHGR_OFFSET_NTC_TEMPS + 2],
       [n |-> 4, kind |-> "write2", base |-> CHGR_BASE, off |-> CHGR_OFFSET_NTC_TEMPS + 4],
       [n |-> 5, kind |-> "write2", base |-> CHGR_BASE, off |-> CHGR_OFFSET_NTC_TEMPS + 6],
       [n |-> 6, kind |-> "write2", base |-> CHGR_BASE, off |-> CHGR_OFFSET_DIE_TEMPS],
       [n |-> 7, kind |-> "write2", base |-> CHGR_BASE, off |-> CHGR_OFFSET_DIE_TEMPS + 2],
       [n |-> 8, kind |-> "write", base |-> CHGR_BASE, off |-> CHGR_OFFSET_VTERM],
       [n |-> 9, kind |-> "write", base |-> CHGR_BASE, off |-> CHGR_OFFSET_VTERM_R],
       [n |-> 10, kind |-> "iset", base |-> CHGR_BASE, off |-> CHGR_OFFSET_ISET],
       [n |-> 11, kind |-> "write2", base |-> CHGR_BASE, off |-> CHGR_OFFSET_ISET_DISCHG],
       [n |-> 12, kind |-> "write", base |-> VBUS_BASE, off |-> VBUS_OFFSET_ILIMSTARTUP],
       [n |-> 13, kind |-> "write", base |-> CHGR_BASE, off |-> CHGR_OFFSET_TRICKLE_SEL],
       [n |-> 14, kind |-> "write", base |-> CHGR_BASE, off |-> CHGR_OFFSET_ITERM_SEL],
       [n |-> 15, kind |-> "write", base |-> ADC_BASE, off |-> ADC_OFFSET_IBAT_EN],
       [n |-> 16, kind |-> "write", base |-> ADC_BASE, off |-> ADC_OFFSET_TASK_VBAT],
       [n |-> 17, kind |-> "write2", base |-> ADC_BASE, off |-> ADC_OFFSET_TASK_TEMP],
       [n |-> 18, kind |-> "write", base |-> ADC_BASE, off |-> ADC_OFFSET_TASK_AUTO],
       [n |-> 19, kind |-> "write", base |-> CHGR_BASE, off |-> CHGR_OFFSET_VBATLOW_EN],
       [n |-> 20, kind |-> "write", base |-> CHGR_BASE, off |-> CHGR_OFFSET_DIS_SET],
       [n |-> 21, kind |-> "write", base |-> CHGR_BASE, off |-> CHGR_OFFSET_EN_SET] >>

\* is the write of rank e.n part of a complete run under the configuration?
Wanted(e) ==
    CASE e.n \in 2..5 -> config.temp_thresholds[e.n - 1] # INT32_MAX
      [] e.n \in 6..7 -> config.dietemp_thresholds[e.n - 5] # INT32_MAX
      [] e.n = 11 -> config.dischg_limit_idx # UINT8_MAX
      [] e.n = 19 -> config.vbatlow_charge_enable
      [] e.n = 21 -> config.charging_enable
      [] OTHER -> TRUE

\* does call c write the register of rank e (ISET is a single write on the
\* variant without discharge table, an MSB+LSB pair on the other)?
Matches(c, e) ==
    /\ At(c, e.base, e.off)
    /\ c.kind = IF e.kind = "iset"
                THEN (IF config.dischg_limit_idx = UINT8_MAX THEN "write" ELSE "write2")
                ELSE e.kind

\* C2: the writes issued by a run of init are, in order, the writes of
\* InitOrder that the configuration asks for: all of them when init returns 0,
\* a prefix of them when the run aborts; none out of order, none twice.
C2_InitWriteOrder ==
    op = "init" =>
        LET want == SelectSeq(InitOrder, Wanted)
        IN  /\ Len(calls) <= Len(want)
            /\ \A k \in 1..Len(calls) : Matches(calls[k], want[k])
            /\ (phase = "ready" => Len(calls) = Len(want))

\* a complete run that issues every one of the 21 writes
C2_Witness ==
    /\ op = "init"
    /\ ret = 0
    /\ phase = "ready"
    /\ Len(calls) = 21

\* the range lookups of init, from the configuration
TermLookup ==
    linear_range_group_get_win_index(config.term_volt_ranges, config.term_microvolt,
                                     config.term_microvolt)
WarmLookup ==
    linear_range_group_get_win_index(config.term_volt_ranges,
                                     config.term_warm_microvolt,
                                     config.term_warm_microvolt)
CurrentLookup ==
    linear_range_get_win_index(config.current_range,
                               config.current_microamp - config.current_range.step + 1,
                               config.current_microamp)
VbusLookup ==
    linear_range_get_win_index(vbus_current_range, config.vbus_limit_microamp,
                               config.vbus_limit_microamp)

\* register (base, off) was written successfully before position k
WrittenBefore(k, base, off) ==
    \E j \in 1..(k - 1) : At(calls[j], base, off) /\ calls[j].ret = 0

\* C3: init writes EN_SET only if charging_enable is configured, all four
\* range lookups resolved and the writes of VTERM, VTERM_R, ISET, ILIMSTARTUP,
\* TRICKLE_SEL, ITERM_SEL and DIS_SET all returned 0 before it; the EN_SET
\* write is then the last register access of init.
C3_EnableLast ==
    op = "init" =>
        \A k \in Accesses(CHGR_BASE, CHGR_OFFSET_EN_SET) :
            /\ config.charging_enable
            /\ k = Len(calls)
            /\ TermLookup.ret # -EINVAL
            /\ WarmLookup.ret # -EINVAL
            /\ CurrentLookup.ret # -EINVAL
            /\ VbusLookup.ret # -EINVAL
            /\ WrittenBefore(k, CHGR_BASE, CHGR_OFFSET_VTERM)
            /\ WrittenBefore(k, CHGR_BASE, CHGR_OFFSET_VTERM_R)
            /\ WrittenBefore(k, CHGR_BASE, CHGR_OFFSET_ISET)
            /\ WrittenBefore(k, VBUS_BASE, VBUS_OFFSET_ILIMSTARTUP)
            /\ WrittenBefore(k, CHGR_BASE, CHGR_OFFSET_TRICKLE_SEL)
            /\ WrittenBefore(k, CHGR_BASE, CHGR_OFFSET_ITERM_SEL)
            /\ WrittenBefore(k, CHGR_BASE, CHGR_OFFSET_DIS_SET)

\* charging was enabled by a run whose charge current lookup was clamped
\* (-ERANGE) rather than exact
C3_Witness ==
    /\ op = "init"
    /\ ret = 0
    /\ Accesses(CHGR_BASE, CHGR_OFFSET_EN_SET) # {}
    /\ CurrentLookup.ret = -ERANGE

\* the threshold code the datasheet equations give: NTC (1024 * R) / (R + R0),
\* truncated; die temperature (394670 - t) * 5000 / 3963000, rounded to nearest
ExpectedNtcCode(idx) ==
    LET res == calc_ntc_res(config, config.temp_thresholds[idx + 1])
    IN  (1024 * res) \div (res + config.thermistor_ohms)
ExpectedDieCode(idx) ==
    ((394670 - config.dietemp_thresholds[idx + 1]) * 5000 + 1981500) \div 3963000

\* register (base, off) is written exactly once, as the MSB+LSB pair of code
OnePair(base, off, code) ==
    /\ Cardinality(Accesses(base, off)) = 1
    /\ \A k \in Accesses(base, off) :
        /\ calls[k].kind = "write2"
        /\ calls[k].data = << code \div 4, code % 4 >>

\* register (base, off) is written exactly once, as an MSB+LSB pair
OnePairOfSomeCode(base, off) ==
    /\ Cardinality(Accesses(base, off)) = 1
    /\ \A k \in Accesses(base, off) :
        /\ calls[k].kind = "write2"
        /\ calls[k].data[2] \in 0..3

\* a run of init on a ready device in which no transport call failed
InitTransportOk ==
    /\ op = "init"
    /\ config.mfd_ready
    /\ \A k \in 1..Len(calls) : calls[k].ret = 0

\* C4: with a working transport, init writes exactly one MSB+LSB pair per
\* threshold that is not the sentinel, at 0x10 + 2*idx (NTC) or 0x18 + 2*idx
\* (die), with MSB = code >> 2 and LSB = code & 3, and nothing for a sentinel
\* threshold.
C4_ThresholdPairs ==
    InitTransportOk =>
        /\ \A idx \in 0..3 :
            IF config.temp_thresholds[idx + 1] = INT32_MAX
            THEN Accesses(CHGR_BASE, 16 + 2 * idx) = {}
            ELSE IF config.thermistor_ohms = 0
            THEN OnePairOfSomeCode(CHGR_BASE, 16 + 2 * idx)
            ELSE OnePair(CHGR_BASE, 16 + 2 * idx, ExpectedNtcCode(idx))
        /\ \A idx \in 0..1 :
            IF config.dietemp_thresholds[idx + 1] = INT32_MAX
            THEN Accesses(CHGR_BASE, 24 + 2 * idx) = {}
            ELSE OnePair(CHGR_BASE, 24 + 2 * idx, ExpectedDieCode(idx))

\* the part of C4 that the code meets: the same statement for the
\* configurations in which the divisor res + thermistor_ohms is not 0
C4_PairsWithThermistor ==
    (config.thermistor_ohms # 0 \/ config.temp_thresholds = Unset4)
        => C4_ThresholdPairs

\* one NTC threshold set (idx 2): one pair at 0x14, no other threshold write
C4_Witness ==
    /\ InitTransportOk
    /\ config.thermistor_ohms # 0
    /\ config.temp_thresholds = << INT32_MAX, INT32_MAX, 45000, INT32_MAX >>
    /\ config.dietemp_thresholds = Unset2
    /\ OnePair(CHGR_BASE, 20, 336)
    /\ phase = "ready"

----------------------------------------------------------------------------
(* Properties of npm13xx_charger_attr_set on the charging-enable channel *)

\* is call c the single-byte write of `byte` to register (base, off)?
IsWrite(c, base, off, byte) ==
    c.kind = "write" /\ At(c, base, off) /\ c.data = << byte >>

\* the last handler was attr_set(SENSOR_CHAN_GAUGE_DESIRED_CHARGING_CURRENT,
\* SENSOR_ATTR_CONFIGURATION, {val1, val2})
ChargingEnableSet ==
    /\ op = "attr_set"
    /\ args.chan = "SENSOR_CHAN_GAUGE_DESIRED_CHARGING_CURRENT"
    /\ args.attr = "SENSOR_ATTR_CONFIGURATION"

\* the written sensor_value is the value 0: integer and fractional part both 0
IsZeroValue == args.val1 = 0 /\ args.val2 = 0

\* C5: writing any value other than 0 (val1 and val2 not both zero) to the
\* charging-enable attribute first writes 1 to the charger error-clear
\* register; if that write fails its error is returned and nothing else is
\* written; otherwise 1 is written to the charge-enable-set register and the
\* result of that write is returned.
C5_EnableSequence ==
    (ChargingEnableSet /\ ~IsZeroValue) =>
        /\ Len(calls) >= 1
        /\ IsWrite(calls[1], CHGR_BASE, CHGR_OFFSET_ERR_CLR, 1)
        /\ calls[1].ret # 0 => (Len(calls) = 1 /\ ret = calls[1].ret)
        /\ calls[1].ret = 0 =>
                /\ Len(calls) = 2
                /\ IsWrite(calls[2], CHGR_BASE, CHGR_OFFSET_EN_SET, 1)
                /\ ret = calls[2].ret

\* The sequence of C5 for the values the code takes as nonzero: those whose
\* integer part val1 is not 0.
C5_EnableSequenceIntegerPart ==
    (ChargingEnableSet /\ args.val1 # 0) =>
        /\ Len(calls) >= 1
        /\ IsWrite(calls[1], CHGR_BASE, CHGR_OFFSET_ERR_CLR, 1)
        /\ calls[1].ret # 0 => (Len(calls) = 1 /\ ret = calls[1].ret)
        /\ calls[1].ret = 0 =>
                /\ Len(calls) = 2
                /\ IsWrite(calls[2], CHGR_BASE, CHGR_OFFSET_EN_SET, 1)
                /\ ret = calls[2].ret

\* C6: writing the value 0 to the charging-enable attribute performs exactly
\* one register write, 1 to the charge-enable-clear register, and returns the
\* result of that write.
C6_DisableSingleWrite ==
    (ChargingEnableSet /\ IsZeroValue) =>
        /\ Len(calls) = 1
        /\ IsWrite(calls[1], CHGR_BASE, CHGR_OFFSET_EN_CLR, 1)
        /\ ret = calls[1].ret

\* the value 0 was written and the write of the enable-clear register failed
C6_Witness ==
    /\ ChargingEnableSet /\ IsZeroValue
    /\ Len(calls) = 1
    /\ IsWrite(calls[1], CHGR_BASE, CHGR_OFFSET_EN_CLR, 1)
    /\ ret = -EBUSY

----------------------------------------------------------------------------
(* Properties of npm13xx_charger_sample_fetch *)

\* The six register accesses of a fetch, in order
FetchOrder ==
    << [kind |-> "read", base |-> CHGR_BASE, off |-> CHGR_OFFSET_CHG_STAT],
       [kind |-> "read", base |-> CHGR_BASE, off |-> CHGR_OFFSET_ERR_REASON],
       [kind |-> "burst", base |-> ADC_BASE, off |-> ADC_OFFSET_RESULTS],
       [kind |-> "write2", base |-> ADC_BASE, off |-> ADC_OFFSET_TASK_TEMP],
       [kind |-> "write", base |-> ADC_BASE, off |-> ADC_OFFSET_TASK_VBAT],
       [kind |-> "read", base |-> VBUS_BASE, off |-> VBUS_OFFSET_STATUS] >>

\* C7: one sample_fetch accesses, in this order and each at most once, the
\* charger status, the charger error reason, the ADC result block (one burst
\* read), the NTC+die trigger pair, the VBAT trigger and the VBUS status; the
\* first access that fails is the last one and its error is returned; 0 is
\* returned only if all six succeeded.
C7_FetchOrder ==
    op = "fetch" =>
        /\ Len(calls) \in 1..Len(FetchOrder)
        /\ \A k \in 1..Len(calls) :
              /\ calls[k].kind = FetchOrder[k].kind
              /\ At(calls[k], FetchOrder[k].base, FetchOrder[k].off)
              /\ calls[k].ret # 0 => (k = Len(calls) /\ ret = calls[k].ret)
              /\ (calls[k].kind = "burst" /\ calls[k].ret = 0) =>
                    Len(calls[k].data) = 11
        /\ calls[Len(calls)].ret = 0 => Len(calls) = Len(FetchOrder)
        /\ ret = 0 => \A k \in 1..Len(calls) : calls[k].ret = 0

\* a fetch in which all six accesses succeeded, and one aborted by the
\* NTC+die trigger write
C7_Witness ==
    /\ op = "fetch"
    /\ \/ ret = 0 /\ Len(calls) = 6 /\ Len(calls[3].data) = 11
       \/ ret = -EIO /\ Len(calls) = 4 /\ calls[4].ret = -EIO

\* C8: the Live Sample State is replaced as a whole: a fetch that returns a
\* transport error leaves all eight fields exactly as they were, so that at
\* the return of any fetch the fields all come from one and the same fetch.
C8_FetchWholesale ==
    [][(op' = "fetch" /\ ret' # 0) => data' = data]_vars

----------------------------------------------------------------------------
(* Properties of the channel and attribute surface *)

\* the read channels of channel_get
ReadChans ==
    {"SENSOR_CHAN_GAUGE_VOLTAGE", "SENSOR_CHAN_GAUGE_TEMP",
     "SENSOR_CHAN_GAUGE_AVG_CURRENT", "SENSOR_CHAN_NPM13XX_CHARGER_STATUS",
     "SENSOR_CHAN_NPM13XX_CHARGER_ERROR",
     "SENSOR_CHAN_GAUGE_DESIRED_CHARGING_CURRENT",
     "SENSOR_CHAN_GAUGE_MAX_LOAD_CURRENT", "SENSOR_CHAN_DIE_TEMP",
     "SENSOR_CHAN_NPM13XX_CHARGER_VBUS_STATUS"}

\* the six VBUS status attributes
VbusAttrs ==
    {"SENSOR_ATTR_NPM13XX_CHARGER_VBUS_PRESENT",
     "SENSOR_ATTR_NPM13XX_CHARGER_VBUS_CUR_LIMIT",
     "SENSOR_ATTR_NPM13XX_CHARGER_VBUS_OVERVLT_PROT",
     "SENSOR_ATTR_NPM13XX_CHARGER_VBUS_UNDERVLT",
     "SENSOR_ATTR_NPM13XX_CHARGER_VBUS_SUSPENDED",
     "SENSOR_ATTR_NPM13XX_CHARGER_VBUS_BUSOUT"}

\* the (channel, attribute) pairs of attr_get
GetPairs ==
    ({"SENSOR_CHAN_GAUGE_DESIRED_CHARGING_CURRENT"} \X {"SENSOR_ATTR_CONFIGURATION"})
    \cup ({"SENSOR_CHAN_CURRENT"} \X {"SENSOR_ATTR_UPPER_THRESH"})
    \cup ({"SENSOR_CHAN_NPM13XX_CHARGER_VBUS_STATUS"} \X VbusAttrs)

\* the (channel, attribute) pairs of attr_set: the charging enable, and the
\* input current limit under either of its attributes
SetPairs ==
    ({"SENSOR_CHAN_GAUGE_DESIRED_CHARGING_CURRENT"} \X {"SENSOR_ATTR_CONFIGURATION"})
    \cup ({"SENSOR_CHAN_CURRENT"}
          \X {"SENSOR_ATTR_UPPER_THRESH", "SENSOR_ATTR_CONFIGURATION"})

\* the last handler was called with a channel or a (channel, attribute) pair
\* outside the surface
Unimplemented ==
    \/ op = "channel_get" /\ args.chan \notin ReadChans
    \/ op = "attr_get" /\ << args.chan, args.attr >> \notin GetPairs
    \/ op = "attr_set" /\ << args.chan, args.attr >> \notin SetPairs

\* C9: channel_get, attr_get and attr_set called with a channel, or a
\* (channel, attribute) pair, that the driver does not implement return
\* -ENOTSUP and perform no register access.
C9_UnimplementedNoAccess ==
    Unimplemented => (ret = -ENOTSUP /\ calls = << >>)

\* The rejection of C9 everywhere but on the VBUS status channel of attr_get
C9_NoAccessExceptVbusStatus ==
    (Unimplemented /\ ~(op = "attr_get"
                        /\ args.chan = "SENSOR_CHAN_NPM13XX_CHARGER_VBUS_STATUS")) =>
        (ret = -ENOTSUP /\ calls = << >>)

\* C10: the VBUS input current limit is settable through the pair attr_get
\* reads it with: attr_set(SENSOR_CHAN_CURRENT, SENSOR_ATTR_UPPER_THRESH) with
\* a value on a step of the limit range programs the limit register and then
\* the limit-update register, and returns the result of the transport.
C10_UpperThreshSettable ==
    (/\ op = "attr_set"
     /\ args.chan = "SENSOR_CHAN_CURRENT"
     /\ args.attr = "SENSOR_ATTR_UPPER_THRESH"
     /\ args.val1 = 0 /\ args.val2 = 500000) =>
        /\ ret # -ENOTSUP
        /\ Len(calls) >= 1
        /\ IsWrite(calls[1], VBUS_BASE, VBUS_OFFSET_ILIM, 5)

----------------------------------------------------------------------------
(* Properties of npm13xx_charger_attr_set on the VBUS current limit *)

\* the last handler was attr_set(SENSOR_CHAN_CURRENT,
\* SENSOR_ATTR_CONFIGURATION, {val1, val2})
VbusLimitSet ==
    /\ op = "attr_set"
    /\ args.chan = "SENSOR_CHAN_CURRENT"
    /\ args.attr = "SENSOR_ATTR_CONFIGURATION"

\* the requested limit in microamps
RequestedUa == args.val1 * 1000000 + args.val2

\* the 15 steps of the limit range: 100 mA .. 1.5 A by 100 mA
VbusSteps == {100000 * k : k \in 1..15}

\* C11: attr_set of the VBUS current limit with a value that is not on one of
\* the 15 steps returns -EINVAL and writes nothing; with a value on a step it
\* writes the index of the step to ILIM and then 1 to ILIMUPDATE, and when the
\* ILIM write fails ILIMUPDATE is not written.
C11_VbusLimitSet ==
    VbusLimitSet =>
        IF RequestedUa \notin VbusSteps
        THEN ret = -EINVAL /\ calls = << >>
        ELSE /\ Len(calls) >= 1
             /\ IsWrite(calls[1], VBUS_BASE, VBUS_OFFSET_ILIM, RequestedUa \div 100000)
             /\ calls[1].ret # 0 => (Len(calls) = 1 /\ ret = calls[1].ret)
             /\ calls[1].ret = 0 =>
                    /\ Len(calls) = 2
                    /\ IsWrite(calls[2], VBUS_BASE, VBUS_OFFSET_ILIMUPDATE, 1)
                    /\ ret = calls[2].ret

\* 1.5 A was requested and programmed: index 15, then the update trigger
C11_Witness ==
    /\ VbusLimitSet
    /\ RequestedUa = 1500000
    /\ Len(calls) = 2
    /\ IsWrite(calls[1], VBUS_BASE, VBUS_OFFSET_ILIM, 15)
    /\ ret = 0

----------------------------------------------------------------------------
(* Properties of npm13xx_charger_channel_get *)

\* C12: channel_get is a pure projection: a call makes no transport call and
\* leaves the Live Sample State and the configuration unchanged, and a call
\* that directly follows a call on the same channel returns the same value.
C12_ChannelGetPure ==
    [][/\ op' = "channel_get" =>
            (calls' = << >> /\ data' = data /\ config' = config)
       /\ (/\ op = "channel_get" /\ op' = "channel_get"
           /\ args'.chan = args.chan /\ phase' = "ready") =>
            (ret' = ret /\ out' = out)]_vars

\* the battery voltage of a fetched sample was projected: 835 -> 4.077 V
C12_Witness ==
    /\ op = "channel_get"
    /\ args.chan = "SENSOR_CHAN_GAUGE_VOLTAGE"
    /\ data.voltage = 835
    /\ out = [set |-> TRUE, val1 |-> 4, val2 |-> 77000]
    /\ calls = << >>

----------------------------------------------------------------------------
(* Properties of the range resolutions of npm13xx_charger_init *)

\* the indices whose step value in the group of ranges rs is exactly v
StepIndices(rs, v) ==
    UNION {{rs[i].min_idx + j :
                j \in {j \in 0..(rs[i].max_idx - rs[i].min_idx) :
                          rs[i].min + rs[i].step * j = v}} :
           i \in 1..Len(rs)}

TermIndices == StepIndices(config.term_volt_ranges, config.term_microvolt)
WarmIndices == StepIndices(config.term_volt_ranges, config.term_warm_microvolt)

\* init ran to its return without a transport error and without a trap
InitRanClean == InitTransportOk /\ phase # "fault"

\* C13: init resolves the termination voltages by exact step.  A
\* term_microvolt that is not a step value is never written to VTERM and makes
\* init return -EINVAL; a step value is written to VTERM as its index.  A
\* term_warm_microvolt that is not a step value is never written to VTERM_R
\* and makes init return -EINVAL right after the VTERM write, which stays
\* the last register access.
C13_TermExactStep ==
    (op = "init" /\ config.mfd_ready) =>
        /\ \A k \in Accesses(CHGR_BASE, CHGR_OFFSET_VTERM) :
              \E i \in TermIndices : calls[k].data = << i >>
        /\ \A k \in Accesses(CHGR_BASE, CHGR_OFFSET_VTERM_R) :
              \E i \in WarmIndices : calls[k].data = << i >>
        /\ (InitRanClean /\ TermIndices = {}) =>
              (ret = -EINVAL /\ Len(calls) >= 1)
        /\ (InitRanClean /\ TermIndices # {}) =>
              Accesses(CHGR_BASE, CHGR_OFFSET_VTERM) # {}
        /\ (InitRanClean /\ TermIndices # {} /\ WarmIndices = {}) =>
              /\ ret = -EINVAL
              /\ At(calls[Len(calls)], CHGR_BASE, CHGR_OFFSET_VTERM)

\* term_microvolt = 3,525,000 lies between two steps: init returned -EINVAL
\* after the NTC selector write and VTERM was not written
C13_Witness ==
    /\ op = "init"
    /\ config.term_microvolt = 3525000
    /\ ret = -EINVAL
    /\ Len(calls) = 1
    /\ At(calls[1], ADC_BASE, ADC_OFFSET_NTCR_SEL)
    /\ calls[1].ret = 0

\* term_microvolt = 3,550,000 is step 1 of the nPM1300 ranges and VTERM = 1
\* was written; term_warm_microvolt = 3,525,000 then ended init
C13_WitnessWarm ==
    /\ op = "init"
    /\ config.term_microvolt = 3550000
    /\ config.term_warm_microvolt = 3525000
    /\ ret = -EINVAL
    /\ IsWrite(calls[Len(calls)], CHGR_BASE, CHGR_OFFSET_VTERM, 1)

\* C14: when the MFD parent is not ready init returns -ENODEV without any
\* register access; the readiness is looked at once, before the first access,
\* so an init that made an access never returns -ENODEV.
C14_NotReadyNoAccess ==
    op = "init" =>
        /\ ~config.mfd_ready => (ret = -ENODEV /\ calls = << >> /\ phase = "failed")
        /\ calls # << >> => (config.mfd_ready /\ ret # -ENODEV)

\* init of an nPM1304 instance whose MFD parent is not ready has returned
C14_Witness ==
    /\ op = "init"
    /\ ~config.mfd_ready
    /\ config.dischg_limit_idx = UINT8_MAX
    /\ ret = -ENODEV
    /\ calls = << >>

----------------------------------------------------------------------------
(* Properties of the die temperature conversions *)

\* the last handler was channel_get(SENSOR_CHAN_DIE_TEMP)
DieTempGet == op = "channel_get" /\ args.chan = "SENSOR_CHAN_DIE_TEMP"

\* 394670 - floor(c * 3963000 / 5000) in unbounded arithmetic
\* (3963000 / 5000 = 3963 / 5)
ExactDietempMdegc(c) == 394670 - (c * 3963) \div 5

\* C15: for every die temperature code c the conversion yields exactly
\* 394670 - floor(c * 3963000 / 5000) millidegrees: the product c * 3963000
\* stays inside int32.
C15_DietempExact ==
    DieTempGet =>
        /\ phase = "ready"
        /\ out = sensor_value_from_milli(ExactDietempMdegc(data.dietemp))

\* The conversion of C15 for the codes whose product fits int32: 0..541
C15_DietempExactUpTo541 ==
    (DieTempGet /\ data.dietemp <= 541) =>
        /\ phase = "ready"
        /\ out = sensor_value_from_milli(ExactDietempMdegc(data.dietemp))

\* millidegrees of the sensor_value a die temperature call produced
OutMdegc == out.val1 * 1000 + CDiv(out.val2, 1000)

\* the codes of the round trip
RoundTripCodes == {0, 512, 1023}

\* C16: die temperature round trip: for each code c of 0, 512 and 1023 the
\* temperature that calc_dietemp reports for c is encoded back to exactly c by
\* the threshold encoder of set_dietemp_thresholds.
C16_DietempRoundTrip ==
    (DieTempGet /\ data.dietemp \in RoundTripCodes) =>
        /\ phase = "ready"
        /\ DietempCode(OutMdegc) = data.dietemp

\* The round trip of C16 for the codes 0 and 512
C16_RoundTripBelowOverflow ==
    (DieTempGet /\ data.dietemp \in {0, 512}) =>
        /\ phase = "ready"
        /\ DietempCode(OutMdegc) = data.dietemp

----------------------------------------------------------------------------
(* Properties of the battery current conversion *)

\* the last handler was channel_get(SENSOR_CHAN_GAUGE_AVG_CURRENT)
AvgCurrentGet == op = "channel_get" /\ args.chan = "SENSOR_CHAN_GAUGE_AVG_CURRENT"

\* C17: for every configuration init accepted and every Live Sample State a
\* fetch produced, the three assertions of calc_current hold when the average
\* current is queried: code <= 1023, full scale <= 1,000,000 uA and
\* full scale >= -1,120,000 uA.
C17_CalcCurrentAsserts ==
    AvgCurrentGet =>
        /\ data.current <= 1023
        /\ FullScaleUa(config, data) <= 1000000
        /\ FullScaleUa(config, data) >= -1120000

\* The assertions of C17 for the charge currents up to the top step, 800 mA
C17_AssertsUpToTopStep ==
    (AvgCurrentGet /\ config.current_microamp <= 800000) =>
        /\ data.current <= 1023
        /\ FullScaleUa(config, data) <= 1000000
        /\ FullScaleUa(config, data) >= -1120000

\* the full scale of the battery current by ibat status: discharge (0x04),
\* trickle, cool or normal charge (0x0C, 0x0D, 0x0F), anything else
ExpectedFullScaleUa ==
    IF data.ibat_stat = 4
    THEN -((config.dischg_limit_microamp * config.full_scale_discharge_factors[1])
            \div config.full_scale_discharge_factors[2])
    ELSE IF data.ibat_stat \in {12, 13, 15}
    THEN (config.current_microamp * 125) \div 100
    ELSE 0

\* C18: the reported battery current is trunc(code * full_scale / 1023)
\* microamps, with full_scale = -(dischg_limit * factor0 / factor1) when
\* discharging, current_microamp * 125 / 100 when charging and 0 for any other
\* ibat status.
C18_BatteryCurrent ==
    (AvgCurrentGet /\ phase = "ready") =>
        /\ ret = 0
        /\ out = sensor_value_from_micro(CDiv(data.current * ExpectedFullScaleUa, 1023))
        /\ data.ibat_stat \notin {4, 12, 13, 15} => (out.val1 = 0 /\ out.val2 = 0)

\* discharge, limit 1,000,000 uA, factors {112, 100}, code 1023: -1,120,000 uA
C18_Witness ==
    /\ AvgCurrentGet /\ phase = "ready"
    /\ data.ibat_stat = 4
    /\ data.current = 1023
    /\ config.dischg_limit_microamp = 1000000
    /\ config.full_scale_discharge_factors = << 112, 100 >>
    /\ out = [set |-> TRUE, val1 |-> -1, val2 |-> -120000]

\* an unknown ibat status (7) with code 1023 was reported as 0
C18_WitnessUnknown ==
    /\ AvgCurrentGet /\ phase = "ready"
    /\ data.ibat_stat = 7
    /\ data.current = 1023
    /\ out = [set |-> TRUE, val1 |-> 0, val2 |-> 0]

----------------------------------------------------------------------------
(* Properties of the ADC decoding *)

\* the last handler was a sample_fetch whose burst read succeeded
FetchDecoded == op = "fetch" /\ Len(calls) >= 3 /\ calls[3].ret = 0

\* (msb << 2) | ((lsb >> shift) & 3) on bytes
TenBit(msb, lsb, shift) == msb * 4 + ((lsb \div (2 ^ shift)) % 4)

\* C19: after a fetch that read the 11-byte burst b (bytes numbered from 0),
\* voltage = (b1 << 2) | (b5 & 3), temp = (b2 << 2) | ((b5 >> 2) & 3),
\* dietemp = (b3 << 2) | ((b5 >> 4) & 3), current = (b8 << 2) | ((b10 >> 4) & 3)
\* and ibat_stat = b0, whatever the bytes 4, 6, 7 and 9 are; in every state
\* the four codes are within 0..1023.
C19_AdcDecoding ==
    /\ FetchDecoded =>
          LET b == calls[3].data
          IN  /\ Len(b) = 11
              /\ data.voltage = TenBit(b[2], b[6], 0)
              /\ data.temp = TenBit(b[3], b[6], 2)
              /\ data.dietemp = TenBit(b[4], b[6], 4)
              /\ data.current = TenBit(b[9], b[11], 4)
              /\ data.ibat_stat = b[1]
    /\ data.voltage \in 0..1023
    /\ data.temp \in 0..1023
    /\ data.dietemp \in 0..1023
    /\ data.current \in 0..1023

\* a burst whose unused bytes are all 0xFF was decoded: 835, 514, 385, 258
C19_Witness ==
    /\ op = "fetch" /\ ret = 0
    /\ calls[3].data = << 4, 208, 128, 96, 255, 27, 255, 255, 64, 255, 32 >>
    /\ data.voltage = 835 /\ data.temp = 514
    /\ data.dietemp = 385 /\ data.current = 258
    /\ data.ibat_stat = 4

----------------------------------------------------------------------------
(* Properties of the charge current resolution of npm13xx_charger_init *)

\* the index of the highest step of the current range that is <= the requested
\* current (for a request at or above the range minimum)
HighestStepIndex ==
    LET r == config.current_range
        n == (config.current_microamp - r.min) \div r.step
        top == r.max_idx - r.min_idx
    IN  r.min_idx + (IF n > top THEN top ELSE n)

\* does call c write index i to ISET in the way of the variant?
WritesIset(c, i) ==
    IF config.dischg_limit_idx = UINT8_MAX
    THEN c.kind = "write" /\ c.data = << i >>
    ELSE c.kind = "write2" /\ c.data = << i \div 2, i % 2 >>

\* init reached the charge current resolution: the run was clean and both
\* termination voltages resolved
ReachedCurrent == InitRanClean /\ TermIndices # {} /\ WarmIndices # {}

\* C20: the charge current is rounded down, never up: whenever init writes
\* ISET, the index written is that of the highest step of the variant's range
\* that is <= current_microamp; a current inside the range is accepted; a
\* current below the range minimum makes init return -EINVAL and ISET is not
\* written.
C20_CurrentRoundsDown ==
    (op = "init" /\ config.mfd_ready) =>
        /\ \A k \in Accesses(CHGR_BASE, CHGR_OFFSET_ISET) :
              /\ config.current_microamp >= config.current_range.min
              /\ WritesIset(calls[k], HighestStepIndex)
        /\ (/\ ReachedCurrent
            /\ config.current_microamp >= config.current_range.min
            /\ config.current_microamp <=
                    linear_range_get_max_value(config.current_range)) =>
              Accesses(CHGR_BASE, CHGR_OFFSET_ISET) # {}
        /\ (ReachedCurrent /\ config.current_microamp < config.current_range.min) =>
              ret = -EINVAL

\* 35,999 uA on the nPM1300 range (32 mA, 2 mA steps from index 16) was
\* written as index 17, the step 34,000 uA
C20_Witness ==
    /\ op = "init" /\ ret = 0
    /\ config.dischg_limit_idx # UINT8_MAX
    /\ config.current_microamp = 35999
    /\ \E k \in Accesses(CHGR_BASE, CHGR_OFFSET_ISET) : calls[k].data = << 8, 1 >>

\* 31,000 uA is below the nPM1300 minimum: -EINVAL after the VTERM_R write
C20_WitnessBelow ==
    /\ op = "init" /\ ret = -EINVAL
    /\ config.dischg_limit_idx # UINT8_MAX
    /\ config.current_microamp = 31000
    /\ At(calls[Len(calls)], CHGR_BASE, CHGR_OFFSET_VTERM_R)

----------------------------------------------------------------------------
(* Properties of the disable write of npm13xx_charger_init *)

\* register (base, off) was written successfully in the run
Written(base, off) == \E k \in Accesses(base, off) : calls[k].ret = 0

\* the run came to the disable step: the automatic measurement write, and
\* the low-battery charging write when configured, succeeded
ReachedDisable ==
    /\ op = "init"
    /\ Written(ADC_BASE, ADC_OFFSET_TASK_AUTO)
    /\ config.vbatlow_charge_enable => Written(CHGR_BASE, CHGR_OFFSET_VBATLOW_EN)

\* C21: an init run that reaches the disable step makes exactly one write to
\* DIS_SET, also when no flag is set; the byte has bit 0 set iff
\* disable_recharge is configured, bit 1 set iff thermistor_idx = 0, and no
\* other bit; bit 1 is set exactly when the selector written to NTCR_SEL
\* by the first write of the run was 0.
C21_DisableWrite ==
    op = "init" =>
        /\ Cardinality(Accesses(CHGR_BASE, CHGR_OFFSET_DIS_SET))
              = (IF ReachedDisable THEN 1 ELSE 0)
        /\ \A k \in Accesses(CHGR_BASE, CHGR_OFFSET_DIS_SET) :
              LET b == calls[k].data[1]
              IN  /\ calls[k].kind = "write" /\ Len(calls[k].data) = 1
                  /\ b \in 0..3
                  /\ (b % 2 = 1) <=> config.disable_recharge
                  /\ (b \div 2 = 1) <=> (config.thermistor_idx = 0)
                  /\ At(calls[1], ADC_BASE, ADC_OFFSET_NTCR_SEL)
                  /\ (b \div 2 = 1) <=> (calls[1].data = << 0 >>)

\* init succeeded with no flag set and wrote DIS_SET = 0
C21_Witness ==
    /\ op = "init" /\ ret = 0
    /\ ~config.disable_recharge /\ config.thermistor_idx # 0
    /\ \E k \in Accesses(CHGR_BASE, CHGR_OFFSET_DIS_SET) : calls[k].data = << 0 >>

\* init of an instance without thermistor and with recharge disabled wrote
\* DIS_SET = 3
C21_WitnessBoth ==
    /\ op = "init" /\ ret = 0
    /\ config.disable_recharge /\ config.thermistor_idx = 0
    /\ \E k \in Accesses(CHGR_BASE, CHGR_OFFSET_DIS_SET) : calls[k].data = << 3 >>

----------------------------------------------------------------------------
(* Properties of interleaved sample_fetch and channel_get *)

\* the Live Sample State that one successful fetch of the sample `in` leaves
WholeSample(in) ==
    [Decoded(ZeroData, AdcResults(in.burst))
        EXCEPT !.status = in.status, !.error = in.error, !.vbus_stat = in.vbus]

\* all eight fields are those of one fetch, or still those of construction
OneFetch(d) == d = ZeroData \/ \E in \in ConcSamples : d = WholeSample(in)

\* a channel_get ran between two statements of a fetch in progress
ReadDuringFetch == op = "channel_get" /\ inflight.pc # 0

\* a fetch returned a transport error
FetchFailed == op = "fetch" /\ inflight.pc = 0 /\ ret # 0

\* C22: when the calls on an instance are serialized (no channel_get runs
\* inside a fetch) and every fetch succeeds, no channel_get ever reads a Live
\* Sample State whose fields are from different fetches.  Without the
\* serialization such a read is reachable (C22_Witness).
C22_SerializedReadsWhole ==
    [](~ReadDuringFetch /\ ~FetchFailed) => [](op = "channel_get" => OneFetch(data))

\* a channel_get of the average current ran inside the second fetch, after
\* the store of the new current code (1023) and before the store of the new
\* ibat status: it scaled the new code by the full scale of the old status
C22_Witness ==
    /\ ReadDuringFetch
    /\ phase = "ready"
    /\ args.chan = "SENSOR_CHAN_GAUGE_AVG_CURRENT"
    /\ inflight.pc = 8
    /\ data.current = 1023
    /\ data.ibat_stat = 4
    /\ data.vbus_stat = 1
    /\ ~OneFetch(data)
    /\ out = calc_current(config, data)

----------------------------------------------------------------------------
(* Properties of the NTC code handed to calc_temp *)

\* channel_get on the gauge-temperature channel has called calc_temp
CalcTempCalled ==
    /\ op = "channel_get"
    /\ args.chan = "SENSOR_CHAN_GAUGE_TEMP"
    /\ config.thermistor_idx # 0
    /\ ret = 0

\* C23: whenever channel_get on the gauge-temperature channel calls calc_temp
\* (thermistor configured), the NTC code it passes, data->temp, is in 1..1023,
\* in every reachable state: before the first fetch and after any fetch
C23_NtcCodePrecondition == CalcTempCalled => data.temp \in 1..1023

\* the half that the 10-bit decoding does guarantee: the code passed to
\* calc_temp never exceeds 1023
C23_NtcCodeAtMost1023 == CalcTempCalled => data.temp \in 0..1023

\* calc_temp called on the zero-initialised sample state, no fetch made yet
C23_WitnessBeforeFetch ==
    /\ CalcTempCalled
    /\ data = ZeroData
    /\ data.temp = 0
    /\ out = calc_temp(config, 0)

====
